---- MODULE Spec2Model ----
(***************************************************************************)
(* A model of the WalkingPad control stack:                                *)
(*   - the paced channel of walkingpad_btle (connect's sender task),       *)
(*   - connection establishment (connect, CONNECTION_FLAG) and crabwalk's  *)
(*     connect_with_retry,                                                 *)
(*   - crabwalk's run tracker (handle_state_update),                       *)
(*   - the history walkers (fetch_stats, get_stats).                       *)
(* Each component has its own specification over the shared variables;     *)
(* the variables of the other components stay at their initial values.     *)
(***************************************************************************)
EXTENDS Integers, Sequences, FiniteSets, TLC

VARIABLES
    \* ---- paced channel (walkingpad_btle::connect, sender task) ----
    now,          \* wall clock, in milliseconds
    sendq,        \* the sync_channel::<Request>(10) between callers and the sender task
    submitted,    \* history: every command enqueued, in enqueue order
    senderPc,     \* position of the sender task: "recv", "sleep", "write", "done"
    command,      \* the command the sender task holds (a set: empty or one command)
    last_write,   \* the sender task's last_write Instant
    wakeAt,       \* deadline of the pending tokio::time::sleep (a set: empty or one time)
    writes,       \* history: the commands handed to walkingpad.write, in order
    lastStart,    \* history: start time of the latest write (a set: empty or one time)
    prevStart,    \* history: start time of the write before it
    sendersAlive, \* some clone of the SyncSender is still held by a caller
    rejected,     \* history: the commands whose send() returned SendError, in order
    failed,       \* history: the write that failed (a set: empty or one record)
    blocked,      \* the send() calls blocked on the full queue (a set of [by, req, since])
    \* ---- connection establishment ----
    flag,         \* CONNECTION_FLAG is set
    cPc,          \* per calling thread: position in connect_with_retry / connect
    retry_count,  \* per calling thread: connect_with_retry's retry_count
    initStage,    \* per calling thread: how far the spawned worker's initialisation is
    initResult,   \* per calling thread: what the spawned worker sent on init_in
    cResult,      \* per calling thread: what connect_with_retry returned
    outcomes,     \* history, per thread: the result of each connect() of the current call
    workers,      \* the threads whose worker is running the sender/receiver tasks
    calls,        \* per calling thread: number of connect_with_retry calls started
    \* ---- run tracker (crabwalk) ----
    app_state,    \* Option<(State, SystemTime)>: empty set or one [last_state, start_time]
    snaps,        \* history: the State snapshots handled so far
    stats_file,   \* the RunStats records written to stats.json
    trackerLog,   \* history: "record" and "clear" events in the order they happened
    trackerPc,    \* "run", or "done" once the response-handling loop has ended
    \* ---- history walker ----
    walker,       \* which walker runs: "none" yet, "fetch_stats" or "get_stats"
    wPc,          \* "start", "wait", "returned", "closed", "failed"
    wSent,        \* history: the requests the walker sent, in order
    wGot,         \* history: the StoredStats responses the walker received, in order
    stats,        \* get_stats' accumulated Vec<StoredStats>
    wTimeouts,    \* history: number of recv timeouts seen
    wOthers,      \* history: number of non-StoredStats responses seen
    \* ---- inbound side of the channel (walkingpad_btle::connect, receiver task) ----
    stream,       \* notifications the transport has delivered and the task has not taken
    arrived,      \* history: every notification the transport delivered, in arrival order
    streamOpen,   \* the transport's notification stream has not terminated
    taken,        \* history: the notifications the receiver task has taken, in order
    republished,  \* history: the responses sent on receiver_in, in order
    receiverPc,   \* "run", or "done" once the task has ended and dropped receiver_in
    consumerAlive,\* the consumer still holds receiver_out
    \* ---- codec (walkingpad_protocol) ----
    reqCall,      \* the request factory called (a set: empty or one [factory, arg, req])
    reqBytes,     \* as_bytes() of the request it returned
    slice,        \* the byte slice handed to Response::parse
    parsed,       \* what Response::parse returned (a set: empty or one Result)
    \* ---- Speed (walkingpad_protocol) and text commands (crabwalk-parse) ----
    speedCall,    \* the operation called (a set: empty or one call record)
    speedResult   \* what it did (a set: empty or one [panic, val])

chanVars == <<now, sendq, submitted, senderPc, command, last_write, wakeAt,
              writes, lastStart, prevStart, sendersAlive, rejected, failed>>
connVars == <<flag, cPc, retry_count, initStage, initResult, cResult, outcomes, workers, calls>>
trkVars  == <<app_state, snaps, stats_file, trackerLog, trackerPc>>
walkVars == <<walker, wPc, wSent, wGot, stats, wTimeouts, wOthers>>
inVars   == <<stream, arrived, streamOpen, taken, republished, receiverPc, consumerAlive>>
codecVars == <<reqCall, reqBytes, slice, parsed, speedCall, speedResult>>
callVars == <<blocked>>
vars == <<chanVars, callVars, connVars, trkVars, walkVars, inVars, codecVars>>

----
\* Small helpers.

Last(s) == s[Len(s)]

IsPrefix(s, t) == Len(s) <= Len(t) /\ SubSeq(t, 1, Len(s)) = s

\* Option<T> as a set: None is the empty set, Some(x) is {x}.
None == {}
Some(x) == {x}
Unwrap(o) == CHOOSE x \in o : TRUE

----
\* Requests (walkingpad_protocol::request). A request is its subject code,
\* its request type, its parameter width in bytes and its parameter.

SubjectState == 162
SubjectSettings == 166
SubjectStoredStats == 167

from_u8(request_type, subject, param) ==
    [subject |-> subject, request_type |-> request_type, width |-> 1, param |-> param]

from_u32(request_type, subject, param) ==
    [subject |-> subject, request_type |-> request_type, width |-> 4, param |-> param]

clear_stats == from_u8(170, SubjectStoredStats, 0)
start == from_u8(4, SubjectState, 1)
stop == from_u8(4, SubjectState, 0)
get_state == from_u8(0, SubjectState, 0)
get_settings == from_u32(0, SubjectSettings, 0)
LATEST_STATS == 255
latest_stored_stats == from_u8(170, SubjectStoredStats, LATEST_STATS)
stored_stats(id) == from_u8(170, SubjectStoredStats, id)

----
\* Request frames (walkingpad_protocol::request, RawRequest). Bytes are the
\* integers 0..255.

REQUEST_HEADER == 247
MESSAGE_FOOTER == 253

\* u8::wrapping_add
wrapping_add(a, b) == (a + b) % 256

\* u32::to_be_bytes
to_be_bytes(v) ==
    << (v \div 16777216) % 256, (v \div 65536) % 256, (v \div 256) % 256, v % 256 >>

\* The param array of a request: [param] for from_u8, param.to_be_bytes()
\* for from_u32.
ParamBytes(req) == IF req.width = 1 THEN <<req.param>> ELSE to_be_bytes(req.param)

\* RawRequest::new's checksum loop: subject, request_type, then each param
\* byte, added with wrap-around.
RECURSIVE CrcLoop(_, _, _)
CrcLoop(crc, param, i) ==
    IF i > Len(param) THEN crc ELSE CrcLoop(wrapping_add(crc, param[i]), param, i + 1)

CrcNoParam(req) == wrapping_add(wrapping_add(0, req.subject), req.request_type)
Crc(req) ==
    CrcLoop(wrapping_add(wrapping_add(0, req.subject), req.request_type),
            ParamBytes(req), 1)

\* Request::as_bytes: the #[repr(C)] struct of u8 fields, in declaration
\* order: header, subject, request_type, param, crc, footer.
as_bytes(req) ==
    <<REQUEST_HEADER, req.subject, req.request_type>> \o ParamBytes(req)
        \o <<Crc(req), MESSAGE_FOOTER>>

\* request::set
set_speed(hm) == from_u8(1, SubjectState, hm)
set_mode(mode) == from_u8(2, SubjectState, mode)
set_calibration_mode(enabled) == from_u32(2, SubjectSettings, enabled)
set_max_speed(hm) == from_u32(3, SubjectSettings, hm)
set_start_speed_as_max(hm) == from_u32(3, SubjectSettings, hm)
set_start_speed(hm) == from_u32(4, SubjectSettings, hm)
set_auto_start(enabled) == from_u32(5, SubjectSettings, enabled)
set_sensitivity(sensitivity) == from_u32(6, SubjectSettings, sensitivity)
set_display(flags) == from_u32(7, SubjectSettings, flags)
set_units(units) == from_u32(8, SubjectSettings, units)
set_locked(is_locked) == from_u32(9, SubjectSettings, is_locked)

\* The values of the parameter types: Speed (0..=60 hm/h), the codes of
\* Mode, Sensitivity and Units, the bits of InfoFlags, bool as 0/1, and
\* the u8 record ids.
SpeedMax == 60
Speeds == 0..SpeedMax
ModesContiguous == 0..4
Modes == {0, 1, 2, 4}
Sensitivities == {1, 2, 3}
UnitsCodes == {0, 1}
InfoFlagsAll == 31
InfoFlagsTruncated == 0..255
InfoFlagsValues == 0..InfoFlagsAll
Bools == {0, 1}

----
\* Response decoding (walkingpad_protocol::response). A reader is the
\* sequence of bytes not yet consumed. A Result is Ok(value, rest of the
\* reader) or Err(error); an error is a tuple of its variant and payload.

RESPONSE_HEADER == 248

Ok(v, rest) == [ok |-> TRUE, val |-> v, rest |-> rest, err |-> <<>>]
Err(e) == [ok |-> FALSE, val |-> 0, rest |-> <<>>, err |-> e]

ResponseTooShort == <<"ResponseTooShort">>
BytesAfterFooter == <<"BytesAfterFooter">>
InvalidResponseHeader(byte) == <<"InvalidResponseHeader", byte>>
InvalidResponseFooter(byte) == <<"InvalidResponseFooter", byte>>
InvalidSpeed(byte) == <<"InvalidSpeed", byte>>
InvalidType(byte, typename) == <<"InvalidType", byte, typename>>

\* reader.next().ok_or(Error::ResponseTooShort)
read_u8_padded(reader) ==
    IF reader = <<>> THEN Ok(0, <<>>) ELSE Ok(Head(reader), Tail(reader))
read_u8(reader) ==
    IF reader = <<>> THEN Err(ResponseTooShort) ELSE Ok(Head(reader), Tail(reader))

\* Three bytes, big-endian, under a zero high byte; the bytes are read one
\* by one, so a reader that ends inside the field gives ResponseTooShort.
read_u32_le(reader) ==
    LET b1 == read_u8(reader)
        b2 == read_u8(b1.rest)
        b3 == read_u8(b2.rest)
    IN IF ~b1.ok THEN b1
       ELSE IF ~b2.ok THEN b2
       ELSE IF ~b3.ok THEN b3
       ELSE Ok(b3.val * 65536 + b2.val * 256 + b1.val, b3.rest)
read_u32(reader) ==
    LET b1 == read_u8(reader)
        b2 == read_u8(b1.rest)
        b3 == read_u8(b2.rest)
    IN IF ~b1.ok THEN b1
       ELSE IF ~b2.ok THEN b2
       ELSE IF ~b3.ok THEN b3
       ELSE Ok(b1.val * 65536 + b2.val * 256 + b3.val, b3.rest)

\* Distance::new::<decameter>: the length, held in metres.
to_distance_raw(distance) == distance
to_distance(distance) == distance * 10

\* MotorState::from(u8)
MotorStateFrom(value) ==
    CASE value = 0 -> <<"Stopped">>
      [] value = 1 -> <<"Running">>
      [] value = 9 -> <<"Starting">>
      [] OTHER -> <<"Unknown", value>>

\* Speed::try_from_hm_per_hour and the TryFrom<u8> of Subject, Mode,
\* Sensitivity, Units and InfoFlags: the value, or the construction error.
try_from_hm_per_hour(value) ==
    IF value <= SpeedMax THEN Ok(value, <<>>) ELSE Err(InvalidSpeed(value))

TryFromRepr(value, codes, typename) ==
    IF value \in codes THEN Ok(value, <<>>) ELSE Err(InvalidType(value, typename))

SubjectCodes == {SubjectState, SubjectSettings, SubjectStoredStats}

\* StoredStats::parse's closure on the next_id byte: 0 is None.
next_id_of_any(n) == Some(n)
next_id_of(n) == IF n = 0 THEN None ELSE Some(n)

\* How one field of a response is read and converted.
\*   "u8": read_u8             "u32": read_u32
\*   "motor": read_u8, MotorState::from
\*   "speed": read_u8, Speed::try_from_hm_per_hour
\*   "mode", "sensitivity", "display", "units": read_u8, try_into
\*   "bool": read_u8, != 0     "distance": read_u32, to_distance
\*   "next_id": read_u8, 0 is None
ReadField(kind, reader) ==
    LET b == read_u8(reader)
        w == read_u32(reader)
        Conv(r) == IF r.ok THEN Ok(r.val, b.rest) ELSE r
    IN CASE kind = "u8" -> b
         [] kind = "u32" -> w
         [] kind = "distance" -> IF w.ok THEN Ok(to_distance(w.val), w.rest) ELSE w
         [] kind = "motor" -> IF b.ok THEN Ok(MotorStateFrom(b.val), b.rest) ELSE b
         [] kind = "speed" -> IF b.ok THEN Conv(try_from_hm_per_hour(b.val)) ELSE b
         [] kind = "mode" -> IF b.ok THEN Conv(TryFromRepr(b.val, Modes, "mode")) ELSE b
         [] kind = "sensitivity" ->
                IF b.ok THEN Conv(TryFromRepr(b.val, Sensitivities, "sensitivity")) ELSE b
         [] kind = "display" ->
                IF b.ok THEN Conv(TryFromRepr(b.val, InfoFlagsValues, "InfoFlags")) ELSE b
         [] kind = "units" -> IF b.ok THEN Conv(TryFromRepr(b.val, UnitsCodes, "units")) ELSE b
         [] kind = "bool" -> IF b.ok THEN Ok(b.val # 0, b.rest) ELSE b
         [] kind = "next_id" ->
                IF b.ok THEN Ok(next_id_of(b.val), b.rest) ELSE b

\* The fields of State::parse, Settings::parse and StoredStats::parse, in
\* the order they are read.
StateFields ==
    << <<"motor_state", "motor">>, <<"speed", "speed">>, <<"mode", "mode">>,
       <<"run_time", "u32">>, <<"distance", "distance">>, <<"nb_steps", "u32">>,
       <<"unknown0", "u8">>, <<"unknown1", "u8">>, <<"unknown2", "u8">>,
       <<"unknown3", "u8">> >>
SettingsFields ==
    << <<"goal_type", "u8">>, <<"goal", "u32">>, <<"calibration", "u8">>,
       <<"max_speed", "speed">>, <<"start_speed", "speed">>, <<"start_mode", "mode">>,
       <<"sensitivity", "sensitivity">>, <<"display", "display">>,
       <<"is_locked", "bool">>, <<"units", "units">>,
       <<"unknown0", "u8">>, <<"unknown1", "u8">>, <<"unknown2", "u8">>,
       <<"unknown3", "u8">> >>
StoredStatsFields ==
    << <<"current_time", "u32">>, <<"start_time", "u32">>, <<"duration", "u32">>,
       <<"distance", "distance">>, <<"nb_steps", "u32">>, <<"next_id", "next_id">> >>

FieldsOf(subject) ==
    CASE subject = SubjectState -> StateFields
      [] subject = SubjectSettings -> SettingsFields
      [] subject = SubjectStoredStats -> StoredStatsFields

\* The struct expression of a parse function: the fields are read in order
\* and the first error is returned.
RECURSIVE ParseFields(_, _, _, _)
ParseFields(fields, i, reader, acc) ==
    IF i > Len(fields) THEN Ok(acc, reader)
    ELSE LET f == ReadField(fields[i][2], reader)
         IN IF ~f.ok THEN f
            ELSE ParseFields(fields, i + 1, f.rest, acc @@ (fields[i][1] :> f.val))

\* Response::parse_header
parse_header_any(reader) ==
    LET byte == read_u8(reader)
    IN IF ~byte.ok THEN byte
       ELSE IF byte.val \in {RESPONSE_HEADER, REQUEST_HEADER} THEN Ok(0, byte.rest)
       ELSE Err(InvalidResponseHeader(byte.val))
parse_header(reader) ==
    LET byte == read_u8(reader)
    IN IF ~byte.ok THEN byte
       ELSE IF byte.val = RESPONSE_HEADER THEN Ok(0, byte.rest)
       ELSE Err(InvalidResponseHeader(byte.val))

\* Response::parse_footer
parse_footer_any(reader) ==
    LET byte == read_u8(reader)
    IN IF ~byte.ok THEN byte ELSE Ok(0, byte.rest)
parse_footer(reader) ==
    LET byte == read_u8(reader)
    IN IF ~byte.ok THEN byte
       ELSE IF byte.val = MESSAGE_FOOTER THEN Ok(0, byte.rest)
       ELSE Err(InvalidResponseFooter(byte.val))

\* The sum of the bytes of s, modulo 256.
RECURSIVE ByteSum(_)
ByteSum(s) == IF s = <<>> THEN 0 ELSE (Head(s) + ByteSum(Tail(s))) % 256

\* Response::parse
parse_verified(bytes) ==
    LET header == parse_header(bytes)
        sbyte == read_u8(header.rest)
        subject == TryFromRepr(sbyte.val, SubjectCodes, "subject")
        response == ParseFields(FieldsOf(subject.val), 1, sbyte.rest,
                                [subject |-> subject.val])
        crc == read_u8(response.rest)
        payload == SubSeq(bytes, 2, Len(bytes) - Len(response.rest))
        footer == parse_footer(crc.rest)
    IN IF ~header.ok THEN Err(header.err)
       ELSE IF ~sbyte.ok THEN Err(sbyte.err)
       ELSE IF ~subject.ok THEN Err(subject.err)
       ELSE IF ~response.ok THEN Err(response.err)
       ELSE IF ~crc.ok THEN Err(crc.err)
       ELSE IF crc.val # ByteSum(payload) THEN Err(<<"InvalidChecksum", crc.val>>)
       ELSE IF ~footer.ok THEN Err(footer.err)
       ELSE IF footer.rest = <<>> THEN Ok(response.val, <<>>)
       ELSE Err(BytesAfterFooter)
parse(bytes) ==
    LET header == parse_header(bytes)
        sbyte == read_u8(header.rest)
        subject == TryFromRepr(sbyte.val, SubjectCodes, "subject")
        response == ParseFields(FieldsOf(subject.val), 1, sbyte.rest,
                                [subject |-> subject.val])
        crc == read_u8(response.rest)
        footer == parse_footer(crc.rest)
    IN IF ~header.ok THEN Err(header.err)
       ELSE IF ~sbyte.ok THEN Err(sbyte.err)
       ELSE IF ~subject.ok THEN Err(subject.err)
       ELSE IF ~response.ok THEN Err(response.err)
       ELSE IF ~crc.ok THEN Err(crc.err)
       ELSE IF ~footer.ok THEN Err(footer.err)
       ELSE IF footer.rest = <<>> THEN Ok(response.val, <<>>)
       ELSE Err(BytesAfterFooter)

----
\* Bounds of the model.

Tick == 250          \* granularity of the model's clock, in milliseconds
MaxTime == 1500      \* the clock stops here
MaxSubmit == 3       \* commands submitted in one behaviour

\* The threads holding a clone of the sender: crabwalk's main loop and its
\* response-handling thread.
Callers == {"main", "handler"}
Submittable == {start, get_state}

NThreads == 2        \* threads that may call connect_with_retry
Threads == 1..NThreads

----
\* The state after start-up. The sender task starts with last_write =
\* Instant::now() and an empty queue; CONNECTION_FLAG is unset and no thread
\* has called connect_with_retry; the run tracker's app_state is None; no
\* history walk has started.
Init ==
    /\ now = 0
    /\ sendq = <<>>
    /\ submitted = <<>>
    /\ senderPc = "recv"
    /\ command = None
    /\ last_write = 0
    /\ wakeAt = None
    /\ writes = <<>>
    /\ lastStart = None
    /\ prevStart = None
    /\ sendersAlive = TRUE
    /\ rejected = <<>>
    /\ failed = None
    /\ blocked = {}
    /\ flag = FALSE
    /\ cPc = [t \in Threads |-> "idle"]
    /\ retry_count = [t \in Threads |-> 0]
    /\ initStage = [t \in Threads |-> 1]
    /\ initResult = [t \in Threads |-> "none"]
    /\ cResult = [t \in Threads |-> "none"]
    /\ outcomes = [t \in Threads |-> <<>>]
    /\ workers = {}
    /\ calls = [t \in Threads |-> 0]
    /\ app_state = None
    /\ snaps = <<>>
    /\ stats_file = <<>>
    /\ trackerLog = <<>>
    /\ trackerPc = "run"
    /\ walker = "none"
    /\ wPc = "start"
    /\ wSent = <<>>
    /\ wGot = <<>>
    /\ stats = <<>>
    /\ wTimeouts = 0
    /\ wOthers = 0
    /\ stream = <<>>
    /\ arrived = <<>>
    /\ streamOpen = TRUE
    /\ taken = <<>>
    /\ republished = <<>>
    /\ receiverPc = "run"
    /\ consumerAlive = TRUE
    /\ reqCall = None
    /\ reqBytes = <<>>
    /\ slice = <<>>
    /\ parsed = None
    /\ speedCall = None
    /\ speedResult = None

----
\* The paced channel: walkingpad_btle::connect, the sender task.

QueueCap == 10
MIN_WAIT == 500

\* A step of the channel leaves the other components alone.
ChanOnly == UNCHANGED <<callVars, connVars, trkVars, walkVars, inVars, codecVars>>

\* The queue of sync_channel(10) accepts a command while it buffers fewer
\* than 10.
HasRoomAlways(q) == TRUE
HasRoom(q) == Len(q) < QueueCap

\* SyncSender::send: the command is appended to the bounded queue. The caller
\* blocks while the queue is full and gets SendError once the receiving end
\* (the sender task) is gone.
Submit(c, r) ==
    /\ ChanOnly
    /\ sendersAlive
    /\ senderPc # "done"
    /\ Len(submitted) < MaxSubmit
    /\ HasRoom(sendq)
    /\ LET cmd == [by |-> c, req |-> r, at |-> now]
       IN /\ sendq' = Append(sendq, cmd)
          /\ submitted' = Append(submitted, cmd)
    /\ UNCHANGED <<now, senderPc, command, last_write, wakeAt, writes,
                   lastStart, prevStart, sendersAlive, rejected, failed>>

\* SyncSender::send once the sender task has ended and dropped the queue's
\* receiving end: SendError, which callers see as Error::ConnectionClosed.
SubmitRejected(c, r) ==
    /\ ChanOnly
    /\ sendersAlive
    /\ senderPc = "done"
    /\ Len(submitted) + Len(rejected) < MaxSubmit
    /\ rejected' = Append(rejected, [by |-> c, req |-> r, at |-> now])
    /\ UNCHANGED <<now, sendq, submitted, senderPc, command, last_write, wakeAt, writes,
                   lastStart, prevStart, sendersAlive, failed>>

\* Every clone of the sender is dropped.
DropSenders ==
    /\ ChanOnly
    /\ sendersAlive
    /\ sendersAlive' = FALSE
    /\ UNCHANGED <<now, sendq, submitted, senderPc, command, last_write, wakeAt,
                   writes, lastStart, prevStart, rejected, failed>>

\* Receiver::recv on the command queue: the oldest command, and what is left.
RecvLifo(q) == <<q[Len(q)], SubSeq(q, 1, Len(q) - 1)>>
Recv(q) == <<Head(q), Tail(q)>>

\* How long the sender task sleeps before a write, given last_write.elapsed().
PacingDeficitElapsed(time_since_write) ==
    IF time_since_write < MIN_WAIT THEN time_since_write ELSE 0
PacingDeficit(time_since_write) ==
    IF time_since_write < MIN_WAIT THEN MIN_WAIT - time_since_write ELSE 0

\* walkingpad.write(...) is called with the held command.
StartWrite(cmd) ==
    /\ senderPc' = "write"
    /\ writes' = Append(writes, cmd)
    /\ prevStart' = lastStart
    /\ lastStart' = Some(now)

\* One turn of the sender loop up to its first await: recv returns a command,
\* the elapsed time is read, and the task either sleeps or writes at once.
SenderRecv ==
    /\ ChanOnly
    /\ senderPc = "recv"
    /\ sendq # <<>>
    /\ LET got == Recv(sendq)
           deficit == PacingDeficit(now - last_write)
       IN /\ command' = Some(got[1])
          /\ sendq' = got[2]
          /\ IF deficit > 0
                THEN /\ senderPc' = "sleep"
                     /\ wakeAt' = Some(now + deficit)
                     /\ UNCHANGED <<writes, lastStart, prevStart>>
                ELSE /\ StartWrite(got[1])
                     /\ UNCHANGED wakeAt
    /\ UNCHANGED <<now, submitted, last_write, sendersAlive, rejected, failed>>

\* recv returns Err: the queue is empty and every sender is gone; the loop ends.
SenderHangup ==
    /\ ChanOnly
    /\ senderPc = "recv"
    /\ sendq = <<>>
    /\ ~sendersAlive
    /\ senderPc' = "done"
    /\ UNCHANGED <<now, sendq, submitted, command, last_write, wakeAt, writes,
                   lastStart, prevStart, sendersAlive, rejected, failed>>

\* tokio::time::sleep completes, never before its deadline; the write follows.
SenderWake ==
    /\ ChanOnly
    /\ senderPc = "sleep"
    /\ now >= Unwrap(wakeAt)
    /\ wakeAt' = None
    /\ StartWrite(Unwrap(command))
    /\ UNCHANGED <<now, sendq, submitted, command, last_write, sendersAlive,
                   rejected, failed>>

\* The write completes. Ok: last_write = Instant::now() and the loop goes on.
\* Err: the error is logged, the loop breaks and the queue's receiving end is
\* dropped with whatever it still holds.
SenderWriteDone(ok) ==
    /\ ChanOnly
    /\ senderPc = "write"
    /\ command' = None
    /\ IF ok
          THEN /\ last_write' = now
               /\ senderPc' = "recv"
               /\ UNCHANGED <<sendq, failed>>
          ELSE /\ senderPc' = "done"
               /\ sendq' = <<>>
               /\ failed' = Some([cmd |-> Unwrap(command), nwrites |-> Len(writes),
                                  nsubmitted |-> Len(submitted)])
               /\ UNCHANGED last_write
    /\ UNCHANGED <<now, submitted, wakeAt, writes, lastStart, prevStart, sendersAlive,
                   rejected>>

\* Wall-clock time passes.
ClockTick ==
    /\ ChanOnly
    /\ now + Tick <= MaxTime
    /\ now' = now + Tick
    /\ UNCHANGED <<sendq, submitted, senderPc, command, last_write, wakeAt, writes,
                   lastStart, prevStart, sendersAlive, rejected, failed>>

----
\* Connection establishment: walkingpad_btle::connect and crabwalk's
\* connect_with_retry.

MaxCalls == 2        \* connect_with_retry calls one thread makes

ConnOnly == UNCHANGED <<chanVars, callVars, trkVars, walkVars, inVars, codecVars>>

\* Results on init_in: Ok(()) or one of the errors of walkingpad_btle::Error.
InitOutcomes == {"Ok", "NoWalkingPadFound", "NoAdapters", "ConnectionError"}

\* The worker's initialisation, in order, and the errors each stage can end
\* with (each is sent on init_in and ends the worker): building the runtime,
\* init_walkingpad (adapter, discovery, connect, service discovery), the
\* notification stream (read characteristic, subscribe), the write
\* characteristic.
InitStages ==
    << {"ConnectionError"},
       {"ConnectionError", "NoAdapters", "NoWalkingPadFound"},
       {"ConnectionError"},
       {"ConnectionError"} >>

\* connect_with_retry's decision on a connect() result with the current
\* retry_count: "retry" or "return".
RetryDecisionThreeTotal(result, count) ==
    IF result = "NoWalkingPadFound" /\ ~(count + 1 >= 3) THEN "retry" ELSE "return"
RetryDecisionAny(result, count) ==
    IF result # "Ok" /\ ~(count > 3) THEN "retry" ELSE "return"
RetryDecision(result, count) ==
    IF result = "NoWalkingPadFound" /\ ~(count > 3) THEN "retry" ELSE "return"

\* connect_with_retry receives `result` from connect().
AfterConnect(t, result) ==
    /\ outcomes' = [outcomes EXCEPT ![t] = Append(@, result)]
    /\ initResult' = [initResult EXCEPT ![t] = "none"]
    /\ IF RetryDecision(result, retry_count[t]) = "retry"
          THEN /\ retry_count' = [retry_count EXCEPT ![t] = @ + 1]
               /\ cPc' = [cPc EXCEPT ![t] = "connect"]
               /\ UNCHANGED cResult
          ELSE /\ cResult' = [cResult EXCEPT ![t] = result]
               /\ cPc' = [cPc EXCEPT ![t] = "returned"]
               /\ UNCHANGED retry_count

\* A thread calls connect_with_retry: retry_count = 0 and the loop is entered.
CallConnectWithRetry(t) ==
    /\ ConnOnly
    /\ cPc[t] \in {"idle", "returned"}
    /\ calls[t] < MaxCalls
    /\ calls' = [calls EXCEPT ![t] = @ + 1]
    /\ cPc' = [cPc EXCEPT ![t] = "connect"]
    /\ retry_count' = [retry_count EXCEPT ![t] = 0]
    /\ cResult' = [cResult EXCEPT ![t] = "none"]
    /\ outcomes' = [outcomes EXCEPT ![t] = <<>>]
    /\ UNCHANGED <<flag, initStage, initResult, workers>>

\* connect() reads CONNECTION_FLAG: set, it returns
\* ConnectionAlreadyEstablished; unset, it creates the channels, spawns the
\* worker thread and blocks on init_out.
FlagIsSetNever(f) == FALSE
FlagIsSet(f) == f

ConnectCheck(t) ==
    /\ ConnOnly
    /\ cPc[t] = "connect"
    /\ IF FlagIsSet(flag)
          THEN /\ AfterConnect(t, "ConnectionAlreadyEstablished")
               /\ UNCHANGED <<flag, initStage, workers, calls>>
          ELSE /\ cPc' = [cPc EXCEPT ![t] = "spawned"]
               /\ UNCHANGED <<flag, retry_count, initStage, initResult, cResult,
                              outcomes, workers, calls>>

\* The worker thread of t's connect() runs one stage of its initialisation:
\* on an error it reports the error and returns; after the last stage it
\* reports Ok(()) and runs the sender and receiver tasks.
WorkerInit(t, o) ==
    /\ ConnOnly
    /\ cPc[t] = "spawned"
    /\ initResult[t] = "none"
    /\ o \in InitStages[initStage[t]] \cup {"Ok"}
    /\ IF o = "Ok" /\ initStage[t] < Len(InitStages)
          THEN /\ initStage' = [initStage EXCEPT ![t] = @ + 1]
               /\ UNCHANGED <<initResult, workers>>
          ELSE /\ initStage' = [initStage EXCEPT ![t] = 1]
               /\ initResult' = [initResult EXCEPT ![t] = o]
               /\ workers' = IF o = "Ok" THEN workers \cup {<<t, calls[t]>>}
                                          ELSE workers
    /\ UNCHANGED <<flag, cPc, retry_count, cResult, outcomes, calls>>

\* init_out.blocking_recv() returns. An error is returned to the caller. On
\* Ok(()), CONNECTION_FLAG.set(()).unwrap() sets the flag, and panics when the
\* flag has been set in the meantime.
ConnectFinish(t) ==
    /\ ConnOnly
    /\ cPc[t] = "spawned"
    /\ initResult[t] # "none"
    /\ IF initResult[t] # "Ok"
          THEN /\ AfterConnect(t, initResult[t])
               /\ UNCHANGED <<flag, initStage, workers, calls>>
          ELSE IF flag
                 THEN /\ cPc' = [cPc EXCEPT ![t] = "panicked"]
                      /\ UNCHANGED <<flag, retry_count, initStage, initResult,
                                     cResult, outcomes, workers, calls>>
                 ELSE /\ flag' = TRUE
                      /\ AfterConnect(t, "Ok")
                      /\ UNCHANGED <<initStage, workers, calls>>

\* The worker of a connect() that panicked finds both ends of its channels
\* dropped and ends.
WorkerExit(w) ==
    /\ ConnOnly
    /\ w \in workers
    /\ cPc[w[1]] = "panicked"
    /\ workers' = workers \ {w}
    /\ UNCHANGED <<flag, cPc, retry_count, initStage, initResult, cResult,
                   outcomes, calls>>

NextConnect ==
    \/ \E t \in Threads : CallConnectWithRetry(t)
    \/ \E t \in Threads : ConnectCheck(t)
    \/ \E t \in Threads, o \in InitOutcomes : WorkerInit(t, o)
    \/ \E t \in Threads : ConnectFinish(t)
    \/ \E w \in workers : WorkerExit(w)

\* Any thread may call connect_with_retry, concurrently with the others.
SpecConnect ==
    /\ Init
    /\ [][NextConnect]_vars

\* C3: at most one channel worker is ever active in the process and no
\* connect() panics, in every interleaving of connect() calls.
OneActiveChannel ==
    /\ Cardinality(workers) <= 1
    /\ \A t \in Threads : cPc[t] # "panicked"

\* crabwalk: only the main thread (thread 1) calls connect_with_retry.
NextRetry ==
    \/ CallConnectWithRetry(1)
    \/ ConnectCheck(1)
    \/ \E o \in InitOutcomes : WorkerInit(1, o)
    \/ ConnectFinish(1)

SpecRetry ==
    /\ Init
    /\ [][NextRetry]_vars

AllNotFound(s) == \A i \in 1..Len(s) : s[i] = "NoWalkingPadFound"

\* C4: when every attempt reports that no device was found,
\* connect_with_retry makes at most 4 attempts (the first and 3 retries).
AtMostFourAttempts ==
    \A t \in Threads : AllNotFound(outcomes[t]) => Len(outcomes[t]) <= 4

\* C5: after not-found on exactly the first 3 attempts connect_with_retry
\* tries again, and when that attempt succeeds it returns the established
\* channel; after not-found on 5 consecutive attempts it has returned the
\* not-found error.
RetryScenarios ==
    \A t \in Threads :
        LET o == outcomes[t]
            NF == "NoWalkingPadFound"
        IN /\ o = <<NF, NF, NF>> => cPc[t] \in {"connect", "spawned"}
           /\ o = <<NF, NF, NF, "Ok">> =>
                  /\ cPc[t] = "returned"
                  /\ cResult[t] = "Ok"
                  /\ flag
                  /\ <<t, calls[t]>> \in workers
           /\ (Len(o) >= 5 /\ AllNotFound(SubSeq(o, 1, 5))) =>
                  /\ Len(o) = 5
                  /\ cPc[t] = "returned"
                  /\ cResult[t] = NF

\* A second call, made after a first one that failed, succeeded on its
\* fourth attempt.
RetryScenariosWitness ==
    LET NF == "NoWalkingPadFound"
    IN /\ cPc[1] = "returned"
       /\ calls[1] = 2
       /\ outcomes[1] = <<NF, NF, NF, "Ok">>
       /\ cResult[1] = "Ok"

\* C6: a connect() error other than not-found ends connect_with_retry at
\* once, with that error, whatever the retry count: it is the last attempt.
OtherErrorsNotRetried ==
    \A t \in Threads :
        \A i \in 1..Len(outcomes[t]) :
            outcomes[t][i] \notin {"NoWalkingPadFound", "Ok"} =>
                /\ i = Len(outcomes[t])
                /\ cPc[t] = "returned"
                /\ cResult[t] = outcomes[t][i]

\* After two not-found attempts, an error of another kind was returned.
OtherErrorsNotRetriedWitness ==
    \E t \in Threads :
        /\ Len(outcomes[t]) = 3
        /\ outcomes[t][3] \in {"NoAdapters", "ConnectionError"}
        /\ retry_count[t] = 2
        /\ cPc[t] = "returned"

----
\* The run tracker: crabwalk's response-handling thread and
\* handle_state_update.

MaxSnaps == 4        \* State responses handled in one behaviour

TrkOnly == UNCHANGED <<sendq, submitted, senderPc, command, last_write, wakeAt,
                       writes, lastStart, prevStart, sendersAlive, rejected, failed,
                       callVars, connVars, walkVars, inVars, codecVars>>

\* The State responses the tracker is fed: the motor state and the counters
\* handle_state_update reads.
MotorStates == {"Stopped", "Running", "Starting", "Unknown"}
Readings ==
    { [run_time |-> 0, distance |-> 0, nb_steps |-> 0],
      [run_time |-> 60, distance |-> 100, nb_steps |-> 50] }
Snapshots ==
    { [motor_state |-> ms, run_time |-> r.run_time, distance |-> r.distance,
       nb_steps |-> r.nb_steps] : ms \in MotorStates, r \in Readings }

\* state.motor_state == MotorState::Running
IsRunningOrStarting(state) == state.motor_state \in {"Running", "Starting"}
IsRunning(state) == state.motor_state = "Running"

\* The RunStats record of a finished run, from the tracked (last_state,
\* start_time) and the snapshot that ended the run.
RunStatsOfEnding(tracked, state) ==
    [start_time |-> tracked.start_time, duration |-> state.run_time,
     distance |-> state.distance, nb_steps |-> state.nb_steps]
RunStatsOfNow(tracked, state) ==
    [start_time |-> now, duration |-> tracked.last_state.run_time,
     distance |-> tracked.last_state.distance,
     nb_steps |-> tracked.last_state.nb_steps]
RunStatsOf(tracked, state) ==
    [start_time |-> tracked.start_time, duration |-> tracked.last_state.run_time,
     distance |-> tracked.last_state.distance,
     nb_steps |-> tracked.last_state.nb_steps]

\* receiver.recv() yields Response::State(state); handle_state_update runs.
\* The result of sending clear_stats is discarded, so the tracker goes on
\* the same way whether the command was queued or the channel was gone:
\* "clear" in trackerLog is the call of sender.send(clear_stats()).
HandleStateUpdate(state) ==
    /\ TrkOnly
    /\ trackerPc = "run"
    /\ Len(snaps) < MaxSnaps
    /\ snaps' = Append(snaps, state)
    /\ IF app_state # None
          THEN IF IsRunning(state)
                 THEN /\ app_state' = Some([Unwrap(app_state) EXCEPT !.last_state = state])
                      /\ UNCHANGED <<stats_file, trackerLog>>
                 ELSE LET run == RunStatsOf(Unwrap(app_state), state)
                      IN /\ stats_file' = Append(stats_file, run)
                         /\ app_state' = None
                         /\ trackerLog' = trackerLog \o <<"record", "clear">>
          ELSE IF IsRunning(state)
                 THEN /\ app_state' = Some([last_state |-> state, start_time |-> now])
                      /\ UNCHANGED <<stats_file, trackerLog>>
                 ELSE UNCHANGED <<app_state, stats_file, trackerLog>>
    /\ UNCHANGED <<now, trackerPc>>

\* What the statistics file holds once the response-handling loop has
\* ended: the loop just ends, nothing is written for a run in progress.
AtCloseFlush(tracked, file) ==
    IF tracked # None
      THEN Append(file, RunStatsOf(Unwrap(tracked), Unwrap(tracked).last_state))
      ELSE file
AtClose(tracked, file) == file

\* receiver.recv() yields Err (the response queue is closed): the while-let
\* loop and the thread end; no command is sent.
TrackerClosed ==
    /\ TrkOnly
    /\ trackerPc = "run"
    /\ trackerPc' = "done"
    /\ stats_file' = AtClose(app_state, stats_file)
    /\ UNCHANGED <<now, app_state, snaps, trackerLog>>

NextTracker ==
    \/ \E state \in Snapshots : HandleStateUpdate(state)
    \/ TrackerClosed
    \/ ClockTick

SpecTracker ==
    /\ Init
    /\ [][NextTracker]_vars

\* The indices of the snapshots that end a run: a Running snapshot followed
\* by a snapshot that is not Running.
RunEnds(s) ==
    { i \in 1..(Len(s) - 1) :
        s[i].motor_state = "Running" /\ s[i + 1].motor_state # "Running" }

\* The k-th smallest element of a finite set of numbers.
RECURSIVE Nth(_, _)
Nth(S, k) ==
    LET least == CHOOSE x \in S : \A y \in S : x <= y
    IN IF k = 1 THEN least ELSE Nth(S \ {least}, k - 1)

\* C7: one completed-run record per maximal block of Running snapshots that
\* is followed by a non-Running snapshot, carrying the duration, distance and
\* steps of the block's last Running snapshot; and one clear-stored-runs per
\* record, issued right after the record was written.
OneRecordPerRun ==
    LET ends == RunEnds(snaps)
    IN /\ Len(stats_file) = Cardinality(ends)
       /\ \A k \in 1..Len(stats_file) :
             LET last == snaps[Nth(ends, k)]
             IN /\ stats_file[k].duration = last.run_time
                /\ stats_file[k].distance = last.distance
                /\ stats_file[k].nb_steps = last.nb_steps
       /\ Len(trackerLog) = 2 * Len(stats_file)
       /\ \A k \in 1..Len(stats_file) :
             /\ trackerLog[2 * k - 1] = "record"
             /\ trackerLog[2 * k] = "clear"

\* Running(0,0), Running(100,50), Stopped(0,0): one record with the second
\* snapshot's values, then one clear.
OneRecordPerRunWitness ==
    /\ Len(snaps) = 3
    /\ snaps[1].motor_state = "Running" /\ snaps[1].distance = 0
    /\ snaps[2].motor_state = "Running" /\ snaps[2].distance = 100
    /\ snaps[3].motor_state = "Stopped" /\ snaps[3].distance = 0
    /\ Len(stats_file) = 1
    /\ stats_file[1].distance = 100 /\ stats_file[1].nb_steps = 50
    /\ Len(trackerLog) = 2

NoRunning(s) == \A i \in 1..Len(s) : s[i].motor_state # "Running"

\* C8: a non-Running snapshot handled while the tracker is Idle changes
\* nothing (the tracker stays Idle, no record is written, no command is
\* sent); so a sequence with no Running snapshot yields no record.
IdleIgnoresNonRunning ==
    /\ [][ ( /\ app_state = None
             /\ Len(snaps') = Len(snaps) + 1
             /\ snaps'[Len(snaps')].motor_state # "Running" )
           => ( /\ app_state' = None
                /\ stats_file' = stats_file
                /\ trackerLog' = trackerLog ) ]_vars
    /\ [](NoRunning(snaps) => (stats_file = <<>> /\ trackerLog = <<>>))

\* Stopped, Starting handled in Idle: still Idle, nothing written or sent.
IdleIgnoresNonRunningWitness ==
    /\ Len(snaps) = 2
    /\ snaps[1].motor_state = "Stopped"
    /\ snaps[2].motor_state = "Starting"
    /\ app_state = None
    /\ stats_file = <<>>
    /\ trackerLog = <<>>

----
\* The history walkers: fetch_stats (over the paced channel, with a receive
\* timeout) and get_stats (directly on the peripheral).

MaxGot == 3          \* StoredStats responses received in one walk
MaxTimeouts == 2     \* receive timeouts in one walk
MaxOthers == 1       \* other responses received in one walk

WalkOnly == UNCHANGED <<chanVars, callVars, connVars, trkVars, inVars, codecVars>>

\* The StoredStats responses the device may answer with.
RecordIds == {3, 7}
StoredStatsValues ==
    { [distance |-> d, next_id |-> n] :
        d \in {100, 200}, n \in {None} \cup {Some(i) : i \in RecordIds} }

\* What the walker sends after a StoredStats response.
NextRequestRestart(stored) ==
    IF stored.next_id # None THEN latest_stored_stats ELSE clear_stats
NextRequest(stored) ==
    IF stored.next_id # None THEN stored_stats(Unwrap(stored.next_id))
                             ELSE clear_stats

\* What fetch_stats sends when recv_timeout times out, given what it has sent.
TimeoutRequest(sent) == latest_stored_stats

\* Where a walker is after a send that failed: fetch_stats returns
\* Err(ConnectionClosed), get_stats panics on unwrap().
SendFailed(w) == IF w = "fetch_stats" THEN "failed" ELSE "panicked"

\* The walk starts: the request for the latest record is sent.
WalkerStart(w, ok) ==
    /\ WalkOnly
    /\ wPc = "start"
    /\ walker' = w
    /\ IF ok
          THEN wSent' = <<latest_stored_stats>> /\ wPc' = "wait"
          ELSE wSent' = <<>> /\ wPc' = SendFailed(w)
    /\ UNCHANGED <<wGot, stats, wTimeouts, wOthers>>

\* A StoredStats response arrives: get_stats pushes it, fetch_stats logs it;
\* with a next_id the next record is requested, without one the stored runs
\* are cleared and the walk returns.
WalkerStoredStats(stored, ok) ==
    /\ WalkOnly
    /\ wPc = "wait"
    /\ Len(wGot) < MaxGot
    /\ wGot' = Append(wGot, stored)
    /\ stats' = IF walker = "get_stats" THEN Append(stats, stored) ELSE stats
    /\ IF ok
          THEN /\ wSent' = Append(wSent, NextRequest(stored))
               /\ wPc' = IF stored.next_id # None THEN "wait" ELSE "returned"
          ELSE /\ wPc' = SendFailed(walker)
               /\ UNCHANGED wSent
    /\ UNCHANGED <<walker, wTimeouts, wOthers>>

\* Where a walker is after a response of another kind: the match arm logs
\* (fetch_stats) or continues (get_stats), and the loop waits again.
AfterOtherReturn == "returned"
AfterOther == "wait"

\* A response of another kind (or, for get_stats, a notification that does
\* not parse) arrives and is passed over.
WalkerOther ==
    /\ WalkOnly
    /\ wPc = "wait"
    /\ wOthers < MaxOthers
    /\ wOthers' = wOthers + 1
    /\ wPc' = AfterOther
    /\ UNCHANGED <<walker, wSent, wGot, stats, wTimeouts>>

\* fetch_stats: recv_timeout times out after 2 s; a request is sent again.
WalkerTimeout(ok) ==
    /\ WalkOnly
    /\ walker = "fetch_stats"
    /\ wPc = "wait"
    /\ wTimeouts < MaxTimeouts
    /\ wTimeouts' = wTimeouts + 1
    /\ IF ok
          THEN wSent' = Append(wSent, TimeoutRequest(wSent)) /\ UNCHANGED wPc
          ELSE wPc' = SendFailed(walker) /\ UNCHANGED wSent
    /\ UNCHANGED <<walker, wGot, stats, wOthers>>

\* The response stream ends: fetch_stats returns Err(ConnectionClosed),
\* get_stats returns what it has accumulated.
WalkerClosed ==
    /\ WalkOnly
    /\ wPc = "wait"
    /\ wPc' = "closed"
    /\ UNCHANGED <<walker, wSent, wGot, stats, wTimeouts, wOthers>>

NextWalker ==
    \/ \E w \in {"fetch_stats", "get_stats"}, ok \in BOOLEAN : WalkerStart(w, ok)
    \/ \E stored \in StoredStatsValues, ok \in BOOLEAN : WalkerStoredStats(stored, ok)
    \/ WalkerOther
    \/ \E ok \in BOOLEAN : WalkerTimeout(ok)
    \/ WalkerClosed

SpecWalker ==
    /\ Init
    /\ [][NextWalker]_vars

\* The requests a walk answered by the records `got` is to send, in order:
\* fetch-latest, then per record fetch-by-id(next_id), or clear-stored-runs
\* after the record without a next_id.
ExpectedRequests(got) ==
    <<latest_stored_stats>> \o
    [ i \in 1..Len(got) |->
        IF got[i].next_id = None
          THEN from_u8(170, SubjectStoredStats, 0)
          ELSE from_u8(170, SubjectStoredStats, Unwrap(got[i].next_id)) ]

SpecWalkerLive ==
    /\ Init
    /\ [][NextWalker]_vars
    /\ WF_vars(\E w \in {"fetch_stats", "get_stats"} : WalkerStart(w, TRUE))
    /\ WF_vars(WalkerTimeout(TRUE))

\* C11: the walk terminates, returning a result or an error, also when the
\* device never sends a StoredStats response and the channel stays open: the
\* consecutive timeout retries are capped.
WalkTerminates == <>(wPc \in {"returned", "closed", "failed", "panicked"})

\* C10: on a receive timeout the walker sends again the request it sent
\* last.
TimeoutResendsLast ==
    [][ (wTimeouts' = wTimeouts + 1 /\ Len(wSent') = Len(wSent) + 1)
          => wSent'[Len(wSent')] = wSent[Len(wSent)] ]_vars

NextChannel ==
    \/ \E c \in Callers, r \in Submittable : Submit(c, r)
    \/ \E c \in Callers, r \in Submittable : SubmitRejected(c, r)
    \/ DropSenders
    \/ SenderRecv
    \/ SenderHangup
    \/ SenderWake
    \/ \E ok \in BOOLEAN : SenderWriteDone(ok)
    \/ ClockTick

SpecChannel ==
    /\ Init
    /\ [][NextChannel]_vars

\* C1: any two consecutive physical writes of the channel's writer start at
\* least MIN_WAIT apart in wall-clock time, however fast the commands were
\* submitted and by whichever callers.
PacedWrites ==
    (lastStart # None /\ prevStart # None)
        => Unwrap(lastStart) - Unwrap(prevStart) >= MIN_WAIT

\* Two commands submitted at the same instant by different callers have both
\* been written.
PacedWritesWitness ==
    /\ Len(writes) >= 2
    /\ writes[1].at = writes[2].at
    /\ writes[1].by # writes[2].by
    /\ Unwrap(lastStart) - Unwrap(prevStart) >= MIN_WAIT

\* C2: the sequence of physical writes is a prefix of the submission sequence:
\* nothing is reordered, duplicated, merged or skipped.
FifoWrites == IsPrefix(writes, submitted)

\* Three commands were queued together and all three have been written.
FifoWritesWitness ==
    /\ Len(writes) = 3
    /\ writes[1] # writes[2]
    /\ writes[2] # writes[3]
    /\ writes[3].at < Unwrap(prevStart)

\* What each send() call returned to its caller, in call order: Ok for the
\* commands that were queued, then SendError for those that were rejected.
SendResults ==
    [ i \in 1..Len(submitted) |-> [cmd |-> submitted[i], result |-> "Ok"] ] \o
    [ i \in 1..Len(rejected) |-> [cmd |-> rejected[i], result |-> "SendError"] ]

\* C14: after a transport write has failed the writer issues no further
\* write, the send() that submitted the failing command (the k-th send, for
\* the k-th write) has reported a failure to its caller, and no later submit
\* is accepted: each is rejected with a send error.
WriteFailureHandled ==
    failed # None =>
        LET f == Unwrap(failed)
        IN /\ Len(writes) = f.nwrites
           /\ SendResults[f.nwrites].cmd = f.cmd
           /\ SendResults[f.nwrites].result # "Ok"
           /\ Len(submitted) = f.nsubmitted
           /\ \A i \in (f.nsubmitted + 1)..Len(SendResults) :
                 SendResults[i].result = "SendError"

----
\* The inbound side of the channel: walkingpad_btle::connect, the receiver
\* task, and the worker thread that runs it joined with the sender task.

MaxNotifs == 2       \* notifications the transport delivers in one behaviour

\* Response frames: header, subject, the subject's fields, a checksum byte
\* (read and discarded by the decoder), footer.
StateFrame ==
    <<RESPONSE_HEADER, SubjectState, 1, 30, 1, 0, 0, 60, 0, 0, 10, 0, 0, 50,
      0, 0, 0, 0, 0, MESSAGE_FOOTER>>
SettingsFrame ==
    <<RESPONSE_HEADER, SubjectSettings, 0, 0, 0, 0, 0, 60, 20, 1, 2, 3, 0, 0,
      0, 0, 0, 0, 0, MESSAGE_FOOTER>>
StoredStatsFrame(next_id) ==
    <<RESPONSE_HEADER, SubjectStoredStats, 0, 0, 9, 0, 0, 2, 0, 0, 60, 0, 0, 10,
      0, 0, 50, next_id, 0, MESSAGE_FOOTER>>

\* The notifications the transport may deliver: two well-formed frames, a
\* frame with the request header and a frame cut short.
WellFormedNotifications == {StoredStatsFrame(7), StateFrame}
MalformedNotifications ==
    { <<REQUEST_HEADER>> \o Tail(StateFrame), SubSeq(StoredStatsFrame(0), 1, 9) }
Notifications == WellFormedNotifications \cup MalformedNotifications

\* raw::Response::parse(data.value.as_slice()) for each notification the
\* transport may deliver.
Decode == [ n \in Notifications |-> parse(n) ]

InOnly == UNCHANGED <<chanVars, callVars, connVars, trkVars, walkVars, codecVars>>

\* The worker thread runs future::join(sender, receiver) on a
\* current-thread runtime, polling the sender task first. The sender task's
\* sender_out.recv() is a blocking call, so the thread is inside the sender
\* task while that task is at recv; the receiver task is polled only while
\* the sender task is pending on its sleep or its write, or has ended.
SenderYielded == senderPc \in {"sleep", "write", "done"}

\* The transport delivers a notification.
Notify(n) ==
    /\ InOnly
    /\ streamOpen
    /\ receiverPc = "run"
    /\ Len(taken) + Len(stream) < MaxNotifs
    /\ stream' = Append(stream, n)
    /\ arrived' = Append(arrived, n)
    /\ UNCHANGED <<streamOpen, taken, republished, receiverPc, consumerAlive>>

\* The transport's notification stream terminates (connection dropped).
StreamEnd ==
    /\ InOnly
    /\ streamOpen
    /\ streamOpen' = FALSE
    /\ UNCHANGED <<stream, arrived, taken, republished, receiverPc, consumerAlive>>

\* The consumer drops receiver_out.
ConsumerDrop ==
    /\ InOnly
    /\ consumerAlive
    /\ consumerAlive' = FALSE
    /\ UNCHANGED <<stream, arrived, streamOpen, taken, republished, receiverPc>>

\* notification_stream.next() on a stream with notifications waiting: the
\* oldest one, the others stay.
StreamNextNewest(s) == [data |-> Last(s), rest |-> SubSeq(s, 1, Len(s) - 1)]
StreamNext(s) == [data |-> Head(s), rest |-> Tail(s)]

\* Where the receiver task is after a notification that does not decode:
\* the error is logged and the loop goes on.
AfterMalformedBreak == "done"
AfterMalformed == "run"

\* One turn of the receiver loop: the next notification is decoded; a
\* response is sent on receiver_in (the loop breaks when the consumer is
\* gone), a decode error is logged and the notification dropped.
ReceiverNext ==
    /\ InOnly
    /\ receiverPc = "run"
    /\ SenderYielded
    /\ stream # <<>>
    /\ LET next == StreamNext(stream)
           data == next.data
           result == Decode[data]
       IN /\ stream' = next.rest
          /\ taken' = Append(taken, data)
          /\ IF result.ok
                THEN IF consumerAlive
                       THEN /\ republished' = Append(republished, result.val)
                            /\ UNCHANGED receiverPc
                       ELSE /\ receiverPc' = "done"
                            /\ UNCHANGED republished
                ELSE /\ receiverPc' = AfterMalformed
                     /\ UNCHANGED republished
    /\ UNCHANGED <<arrived, streamOpen, consumerAlive>>

\* notification_stream.next() yields None: the loop ends, the task
\* completes and receiver_in is dropped, which closes the response queue.
ReceiverEnd ==
    /\ InOnly
    /\ receiverPc = "run"
    /\ SenderYielded
    /\ stream = <<>>
    /\ ~streamOpen
    /\ receiverPc' = "done"
    /\ UNCHANGED <<stream, arrived, streamOpen, taken, republished, consumerAlive>>

\* The worker with its environment: a caller that submits one command (or
\* none) and may drop its sender, the transport, the consumer.
NextWorker ==
    \/ submitted = <<>> /\ Submit("main", get_state)
    \/ DropSenders
    \/ SenderRecv
    \/ SenderHangup
    \/ SenderWake
    \/ \E ok \in BOOLEAN : SenderWriteDone(ok)
    \/ ClockTick
    \/ \E n \in Notifications : Notify(n)
    \/ StreamEnd
    \/ ConsumerDrop
    \/ ReceiverNext
    \/ ReceiverEnd

SpecWorker ==
    /\ Init
    /\ [][NextWorker]_vars

\* The worker while the callers keep their sender and the consumer its
\* receiver, as crabwalk's threads do.
NextWorkerLive ==
    \/ submitted = <<>> /\ Submit("main", get_state)
    \/ SenderRecv
    \/ SenderWake
    \/ \E ok \in BOOLEAN : SenderWriteDone(ok)
    \/ ClockTick
    \/ \E n \in {StateFrame, StoredStatsFrame(7)} : Notify(n)
    \/ StreamEnd
    \/ ReceiverNext
    \/ ReceiverEnd

\* The worker thread takes the steps it can take: the runtime polls a task
\* that is ready, a blocking recv returns once a command is queued, time
\* passes. Callers need not submit anything and the transport need not
\* deliver anything.
WorkerStep ==
    \/ SenderRecv
    \/ SenderWake
    \/ \E ok \in BOOLEAN : SenderWriteDone(ok)
    \/ ClockTick
    \/ ReceiverNext
    \/ ReceiverEnd

SpecWorkerLive ==
    /\ Init
    /\ [][NextWorkerLive]_vars
    /\ WF_vars(WorkerStep)

\* C12: every notification the transport delivers is eventually decoded,
\* whether or not a command is pending or ever submitted: whenever
\* notifications are waiting in the stream, the receiver task eventually
\* has taken them all (or has ended because the consumer is gone).
NotificationsEventuallyDecoded ==
    (stream # <<>>) ~> (stream = <<>> \/ receiverPc = "done")

\* C13: once the transport's notification stream has terminated the
\* response queue is eventually closed (the receiver task ends and drops
\* receiver_in), so a waiting consumer sees end-of-stream.
StreamEndClosesQueue == (~streamOpen) ~> (receiverPc = "done")

\* The responses the well-formed notifications decode to.
ExpectedResponse(n) ==
    IF n = StateFrame
      THEN [subject |-> SubjectState, motor_state |-> <<"Running">>, speed |-> 30,
            mode |-> 1, run_time |-> 60, distance |-> 100, nb_steps |-> 50,
            unknown0 |-> 0, unknown1 |-> 0, unknown2 |-> 0, unknown3 |-> 0]
      ELSE [subject |-> SubjectStoredStats, current_time |-> 9, start_time |-> 2,
            duration |-> 60, distance |-> 100, nb_steps |-> 50, next_id |-> {7}]

IsWellFormed(n) == n \in WellFormedNotifications

\* C15: a notification that fails to decode produces no response and does
\* not end the receiver task: the responses republished are exactly those
\* of the well-formed notifications taken, in order, also of those taken
\* after a malformed one; and the task ends only when the consumer is gone
\* or the stream has terminated and is drained.
MalformedDropped ==
    /\ consumerAlive =>
          LET good == SelectSeq(taken, IsWellFormed)
          IN republished = [ i \in 1..Len(good) |-> ExpectedResponse(good[i]) ]
    /\ receiverPc = "done" => (~consumerAlive \/ (~streamOpen /\ stream = <<>>))

\* A malformed notification, then a well-formed one: one response, the
\* task still running.
MalformedDroppedWitness ==
    /\ Len(taken) = 2
    /\ taken[1] \in MalformedNotifications
    /\ taken[2] = StoredStatsFrame(7)
    /\ republished = <<ExpectedResponse(StoredStatsFrame(7))>>
    /\ receiverPc = "run"
    /\ consumerAlive
    /\ streamOpen

----
\* The request factories of walkingpad_protocol::request, called with each
\* value of their parameter type.

CodecOnly == UNCHANGED <<chanVars, callVars, connVars, trkVars, walkVars, inVars>>

U8Max == 255

\* A call: the factory and its argument (0 for the factories without one).
Call(f, a) == [factory |-> f, arg |-> a]

FactoryCalls ==
    { Call(f, 0) : f \in {"clear_stats", "start", "stop", "get_state", "get_settings",
                          "latest_stored_stats"} }
    \cup { Call("stored_stats", id) : id \in 0..U8Max }
    \cup { Call(f, hm) : f \in {"set_speed", "set_max_speed", "set_start_speed"},
                         hm \in Speeds }
    \cup { Call("set_mode", mode) : mode \in Modes }
    \cup { Call(f, b) : f \in {"set_calibration_mode", "set_auto_start", "set_locked"},
                        b \in Bools }
    \cup { Call("set_sensitivity", v) : v \in Sensitivities }
    \cup { Call("set_display", flags) : flags \in InfoFlagsValues }
    \cup { Call("set_units", u) : u \in UnitsCodes }

\* The request a call returns.
Build(call) ==
    LET f == call.factory
        a == call.arg
    IN CASE f = "clear_stats" -> clear_stats
         [] f = "start" -> start
         [] f = "stop" -> stop
         [] f = "get_state" -> get_state
         [] f = "get_settings" -> get_settings
         [] f = "latest_stored_stats" -> latest_stored_stats
         [] f = "stored_stats" -> stored_stats(a)
         [] f = "set_speed" -> set_speed(a)
         [] f = "set_mode" -> set_mode(a)
         [] f = "set_calibration_mode" -> set_calibration_mode(a)
         [] f = "set_max_speed" -> set_max_speed(a)
         [] f = "set_start_speed" -> set_start_speed(a)
         [] f = "set_auto_start" -> set_auto_start(a)
         [] f = "set_sensitivity" -> set_sensitivity(a)
         [] f = "set_display" -> set_display(a)
         [] f = "set_units" -> set_units(a)
         [] f = "set_locked" -> set_locked(a)

\* A factory is called and as_bytes() is taken of the request it returns.
CallFactory(call) ==
    /\ CodecOnly
    /\ reqCall = None
    /\ reqCall' = Some([call |-> call, req |-> Build(call)])
    /\ reqBytes' = as_bytes(Build(call))
    /\ UNCHANGED <<slice, parsed, speedCall, speedResult>>

NextRequestCodec == \E call \in FactoryCalls : CallFactory(call)

SpecRequest ==
    /\ Init
    /\ [][NextRequestCodec]_vars

RECURSIVE SumBytes(_, _, _)
SumBytes(b, from, to) == IF from > to THEN 0 ELSE b[from] + SumBytes(b, from + 1, to)

\* C16: as_bytes() of a request built by a named factory is
\* [0xF7, subject, code, param (1 byte, or 4 bytes big-endian), checksum,
\* 0xFD], 6 or 9 bytes long, the checksum being (subject + code + the sum
\* of the param bytes) mod 256.
FrameLayout ==
    reqCall # None =>
        LET r == Unwrap(reqCall).req
            b == reqBytes
            n == Len(b)
        IN /\ n \in {6, 9}
           /\ n = IF r.width = 1 THEN 6 ELSE 9
           /\ \A i \in 1..n : b[i] \in 0..255
           /\ b[1] = 247
           /\ b[2] = r.subject
           /\ b[3] = r.request_type
           /\ IF n = 6 THEN b[4] = r.param
                       ELSE b[4] * 16777216 + b[5] * 65536 + b[6] * 256 + b[7] = r.param
           /\ b[n - 1] = (b[2] + b[3] + SumBytes(b, 4, n - 2)) % 256
           /\ b[n] = 253

\* fetch-latest: the sum 167 + 170 + 255 = 592 wraps to 80.
FrameLayoutWitness ==
    /\ reqCall # None
    /\ Unwrap(reqCall).call = Call("latest_stored_stats", 0)
    /\ reqBytes = <<247, 167, 170, 255, 80, 253>>

\* The command table: the (subject, message code, parameter width,
\* parameter value) of each factory's row.
TableRow(call) ==
    LET f == call.factory
        a == call.arg
    IN CASE f = "get_state" -> <<162, 0, 1, 0>>
         [] f = "get_settings" -> <<166, 0, 4, 0>>
         [] f = "start" -> <<162, 4, 1, 1>>
         [] f = "stop" -> <<162, 4, 1, 0>>
         [] f = "set_speed" -> <<162, 1, 1, a>>
         [] f = "set_mode" -> <<162, 2, 1, a>>
         [] f = "set_max_speed" -> <<166, 3, 4, a>>
         [] f = "set_start_speed" -> <<166, 4, 4, a>>
         [] f = "set_calibration_mode" -> <<166, 2, 4, a>>
         [] f = "set_auto_start" -> <<166, 5, 4, a>>
         [] f = "set_sensitivity" -> <<166, 6, 4, a>>
         [] f = "set_display" -> <<166, 7, 4, a>>
         [] f = "set_units" -> <<166, 8, 4, a>>
         [] f = "set_locked" -> <<166, 9, 4, a>>
         [] f = "latest_stored_stats" -> <<167, 170, 1, 255>>
         [] f = "stored_stats" -> <<167, 170, 1, a>>
         [] f = "clear_stats" -> <<167, 170, 1, 0>>

\* C17: each factory produces the subject, message code, parameter width
\* and parameter value of its row of the command table; and a call of
\* another factory (another row) with another parameter value never gives
\* the same frame.
FactoriesMatchTable ==
    reqCall # None =>
        LET c == Unwrap(reqCall).call
            r == Unwrap(reqCall).req
        IN /\ <<r.subject, r.request_type, r.width, r.param>> = TableRow(c)
           /\ \A other \in FactoryCalls :
                 (other.factory # c.factory /\ TableRow(other)[4] # TableRow(c)[4])
                     => as_bytes(Build(other)) # reqBytes

\* set start speed to 25 hm/h: Settings, code 4, 4 bytes, 25.
FactoriesMatchTableWitness ==
    /\ reqCall # None
    /\ Unwrap(reqCall).call = Call("set_start_speed", 25)
    /\ reqBytes = <<247, 166, 4, 0, 0, 0, 25, 195, 253>>

----
\* Response::parse applied to one byte slice.

\* The frame layouts by position: the width of a field, the index of its
\* first byte (the header and the subject come first) and the length of
\* the whole frame (the fields, the checksum byte, the footer).
FieldWidth(kind) == IF kind \in {"u32", "distance"} THEN 3 ELSE 1

RECURSIVE FieldOffset(_, _)
FieldOffset(fields, i) ==
    IF i = 1 THEN 3
    ELSE FieldOffset(fields, i - 1) + FieldWidth(fields[i - 1][2])

FrameLength(subject) ==
    LET fields == FieldsOf(subject)
        n == Len(fields)
    IN FieldOffset(fields, n) + FieldWidth(fields[n][2]) + 1

\* The slices handed to Response::parse: each of the three frames with one
\* byte replaced by a sample value, cut at every length or followed by
\* further bytes; and each of those slices under every sample first byte.
SampleBytes ==
    {0, 1, SpeedMax + 1, SubjectState, REQUEST_HEADER, RESPONSE_HEADER,
     MESSAGE_FOOTER, U8Max}
BaseFrames == {StateFrame, SettingsFrame, StoredStatsFrame(7)}
Trailers == { <<0>>, <<MESSAGE_FOOTER>> }
\* Sample values of the three bytes of a multi-byte field, from 0 to
\* 2^24 - 1.
WideBytes == {0, 1, 127, 128, U8Max}

\* The slices made from the frame f: f with one byte replaced by a sample
\* value, cut at every length or followed by further bytes, and each of
\* those slices under every sample first byte.
Patched(f) == { [f EXCEPT ![i] = v] : i \in 1..Len(f), v \in SampleBytes }
SlicesOf(p) == { SubSeq(p, 1, n) : n \in 0..Len(p) } \cup { p \o t : t \in Trailers }
Reheaded(x) ==
    IF x = <<>> THEN {x} ELSE {x} \cup { [x EXCEPT ![1] = h] : h \in SampleBytes }

\* The frame f with one byte replaced by every u8 value, and with the
\* three bytes of each of its multi-byte fields (the distance field
\* included) replaced by sample values.
ByteFrames(f) == { [f EXCEPT ![i] = v] : i \in 1..Len(f), v \in 0..U8Max }
WideFields(f) ==
    { i \in 1..Len(FieldsOf(f[2])) : FieldWidth(FieldsOf(f[2])[i][2]) = 3 }
CounterFrames(f) ==
    { LET at == FieldOffset(FieldsOf(f[2]), i)
      IN [f EXCEPT ![at] = b1, ![at + 1] = b2, ![at + 2] = b3]
        : b1 \in WideBytes, b2 \in WideBytes, b3 \in WideBytes, i \in WideFields(f) }

\* One call Response::parse(bytes); its result is kept next to the slice.
ParseCall(bytes) ==
    /\ parsed = None
    /\ slice' = bytes
    /\ parsed' = Some(parse(bytes))
    /\ UNCHANGED <<reqCall, reqBytes, speedCall, speedResult>>
    /\ CodecOnly

\* Response::parse is called once, on a slice made from one of the frames.
NextParse ==
    \/ parsed = None
          /\ \E f \in BaseFrames : \E p \in Patched(f) : \E x \in SlicesOf(p) :
                \E bytes \in Reheaded(x) : ParseCall(bytes)
    \/ parsed = None /\ \E f \in BaseFrames : \E bytes \in ByteFrames(f) : ParseCall(bytes)
    \/ parsed = None
          /\ \E f \in BaseFrames : \E bytes \in CounterFrames(f) : ParseCall(bytes)

SpecParse ==
    /\ Init
    /\ [][NextParse]_vars

\* C18: a slice whose first byte is not 0xF8 (the request header 0xF7
\* included) fails with InvalidResponseHeader carrying that byte, whatever
\* the bytes after it are.
BadHeaderRejected ==
    (parsed # None /\ slice # <<>> /\ slice[1] # 248) =>
        Unwrap(parsed) = Err(<<"InvalidResponseHeader", slice[1]>>)

\* A whole, otherwise well-formed state frame under the request header.
BadHeaderRejectedWitness ==
    /\ parsed # None
    /\ slice = <<247>> \o Tail(StateFrame)
    /\ Unwrap(parsed) = Err(<<"InvalidResponseHeader", 247>>)

\* The construction error of a one-byte field holding this byte, if any.
FieldError(kind, byte) ==
    CASE kind = "speed" /\ byte > 60 -> Some(InvalidSpeed(byte))
      [] kind = "mode" /\ byte \notin {0, 1, 2, 4} -> Some(InvalidType(byte, "mode"))
      [] kind = "sensitivity" /\ byte \notin {1, 2, 3} ->
            Some(InvalidType(byte, "sensitivity"))
      [] kind = "display" /\ byte \notin 0..31 -> Some(InvalidType(byte, "InfoFlags"))
      [] kind = "units" /\ byte \notin {0, 1} -> Some(InvalidType(byte, "units"))
      [] OTHER -> None

\* The fields that lie wholly inside the slice and hold an invalid byte.
BadFields(s) ==
    LET fields == FieldsOf(s[2])
    IN { i \in 1..Len(fields) :
            /\ FieldOffset(fields, i) + FieldWidth(fields[i][2]) - 1 <= Len(s)
            /\ FieldError(fields[i][2], s[FieldOffset(fields, i)]) # None }

FirstFieldError(s) ==
    LET fields == FieldsOf(s[2])
        bad == BadFields(s)
        i == CHOOSE k \in bad : \A j \in bad : k <= j
    IN IF bad = {} THEN None
       ELSE FieldError(fields[i][2], s[FieldOffset(fields, i)])

StartsFrame(s) == Len(s) >= 2 /\ s[1] = 248 /\ s[2] \in {162, 166, 167}
IsTruncated(s) == StartsFrame(s) /\ Len(s) < FrameLength(s[2])

\* C19: a slice that starts with the response header and a valid subject
\* and is shorter than the frame of that subject fails with
\* ResponseTooShort and with no other error.
TruncatedIsTooShort ==
    (parsed # None /\ IsTruncated(slice)) => Unwrap(parsed) = Err(ResponseTooShort)

\* C19, amended: such a slice fails with ResponseTooShort when every field
\* that lies wholly inside it holds a valid value, and otherwise with the
\* construction error of the first field inside it that does not;
\* it never decodes to a response.
TruncatedIsTooShortOrFieldError ==
    (parsed # None /\ IsTruncated(slice)) =>
        LET e == FirstFieldError(slice)
        IN Unwrap(parsed) = Err(IF e = None THEN ResponseTooShort ELSE Unwrap(e))

\* A state frame cut inside run_time.
TruncatedWitness ==
    /\ parsed # None
    /\ slice = SubSeq(StateFrame, 1, 7)
    /\ Unwrap(parsed) = Err(ResponseTooShort)

\* The slice holds a valid header, subject, payload and checksum byte.
ValidUpToChecksum(s) ==
    /\ StartsFrame(s)
    /\ Len(s) >= FrameLength(s[2]) - 1
    /\ BadFields(s) = {}

\* C20: after a valid header, subject, payload and checksum byte, a next
\* byte other than 0xFD fails with InvalidResponseFooter carrying it, 0xFD
\* with a byte after it fails with BytesAfterFooter, and parse succeeds
\* only when 0xFD is the last byte of the slice.
FooterChecked ==
    parsed # None =>
        LET r == Unwrap(parsed)
            n == Len(slice)
        IN /\ ValidUpToChecksum(slice) =>
                LET at == FrameLength(slice[2])
                IN /\ (n >= at /\ slice[at] # 253) =>
                          r = Err(<<"InvalidResponseFooter", slice[at]>>)
                   /\ (n > at /\ slice[at] = 253) => r = Err(<<"BytesAfterFooter">>)
                   /\ (n = at /\ slice[at] = 253) => r.ok
           /\ r.ok => (n > 0 /\ slice[n] = 253 /\ ValidUpToChecksum(slice)
                         /\ n = FrameLength(slice[2]))

\* A whole settings frame followed by a second footer byte.
FooterCheckedWitness ==
    /\ parsed # None
    /\ slice = SettingsFrame \o <<253>>
    /\ Unwrap(parsed) = Err(<<"BytesAfterFooter">>)

\* C21: the distance of a decoded State or StoredStats response is, in
\* metres, 10 times the 24-bit value held by the three distance bytes of
\* the frame (bytes 9..11 of a state frame, 12..14 of a stored-run frame),
\* and fits the 32-bit result (10 * wire <= 2^32 - 1).
DistanceScaled ==
    (parsed # None /\ Unwrap(parsed).ok /\ slice[2] \in {162, 167}) =>
        LET at == IF slice[2] = 162 THEN 9 ELSE 12
            wire == slice[at] * 65536 + slice[at + 1] * 256 + slice[at + 2]
        IN /\ Unwrap(parsed).val.distance = 10 * wire
           /\ wire <= 16777215
           /\ wire <= 429496729

\* The largest wire value, 2^24 - 1, in a stored-run frame.
DistanceScaledWitness ==
    /\ parsed # None
    /\ slice = [StoredStatsFrame(7) EXCEPT ![12] = 255, ![13] = 255, ![14] = 255]
    /\ Unwrap(parsed).ok
    /\ Unwrap(parsed).val.distance = 167772150

----
\* Speed (walkingpad_protocol::Speed): a speed is its inner u8, in hm/h.
\* An operation either panics or returns a value.

Panicked == [panic |-> TRUE, val |-> 0]
Returned(v) == [panic |-> FALSE, val |-> v]

\* u8 + u8 and u8 * u8: a result over 255 panics in a build with overflow
\* checks (the dev profile) and wraps in a build without (the release
\* profile).
u8_add(a, b, overflow_checks) ==
    IF a + b <= U8Max THEN Returned(a + b)
    ELSE IF overflow_checks THEN Panicked
    ELSE Returned((a + b) % (U8Max + 1))

u8_mul(a, b, overflow_checks) ==
    IF a * b <= U8Max THEN Returned(a * b)
    ELSE IF overflow_checks THEN Panicked
    ELSE Returned((a * b) % (U8Max + 1))

\* u8::saturating_sub
wrapping_sub(a, b) == (a - b) % (U8Max + 1)
saturating_sub(a, b) == IF b > a THEN 0 ELSE a - b

\* Speed::from_hm_per_hour
from_hm_per_hour_tenth(value) ==
    LET r == try_from_hm_per_hour(value)
    IN IF r.ok THEN r.val ELSE SpeedMax \div 10
from_hm_per_hour(value) ==
    LET r == try_from_hm_per_hour(value)
    IN IF r.ok THEN r.val ELSE SpeedMax

\* Speed::try_from_km_per_hour: Speed::try_from_hm_per_hour(value * 10)
try_from_km_per_hour(value, overflow_checks) ==
    LET hm == u8_mul(value, 10, overflow_checks)
    IN IF hm.panic THEN Panicked ELSE Returned(try_from_hm_per_hour(hm.val))

\* Speed::from_km_per_hour: the speed, or Speed { inner: Speed::MAX / 10 }
from_km_per_hour(value, overflow_checks) ==
    LET r == try_from_km_per_hour(value, overflow_checks)
    IN IF r.panic THEN Panicked
       ELSE IF r.val.ok THEN Returned(r.val.val)
       ELSE Returned(SpeedMax \div 10)

\* impl_op_ex!(+ |a: &Speed, b: &u8|): Speed::from_hm_per_hour(a.inner + b)
add_u8_unclamped(a, b, overflow_checks) == u8_add(a, b, overflow_checks)
add_u8(a, b, overflow_checks) ==
    LET sum == u8_add(a, b, overflow_checks)
    IN IF sum.panic THEN Panicked ELSE Returned(from_hm_per_hour(sum.val))

\* impl_op_ex!(- |a: &Speed, b: &u8|): Speed { inner: a.inner.saturating_sub(*b) }
sub_u8(a, b) == Returned(saturating_sub(a, b))

\* The operand forms: by value, by shared reference, by mutable reference.
Forms == {"val", "ref", "mut"}

\* a + b for a Speed a and a right operand b that is a Speed (its inner
\* count is taken) or a u8. The impls for &mut operands dereference and
\* call the impl for the value; impl_op_ex! gives the impls for values and
\* shared references, which all run the closure.
RECURSIVE Add(_, _, _, _, _)
Add(lform, rform, a, b, overflow_checks) ==
    IF lform = "mut" THEN Add("val", rform, a, b, overflow_checks)
    ELSE IF rform = "mut" THEN Add(lform, "val", a, b, overflow_checks)
    ELSE add_u8(a, b, overflow_checks)

RECURSIVE Sub(_, _, _, _)
Sub(lform, rform, a, b) ==
    IF lform = "mut" THEN Sub("val", rform, a, b)
    ELSE IF rform = "mut" THEN Sub(lform, "val", a, b)
    ELSE sub_u8(a, b)

\* AddAssign / SubAssign: *self = ops::Add::add(*self, rhs)
add_assign(a, rform, b, overflow_checks) == Add("val", rform, a, b, overflow_checks)
sub_assign(a, rform, b) == Sub("val", rform, a, b)

----
\* Text commands (crabwalk-parse). A token is a word or a decimal number
\* given in hundredths (the text "6.25" is the number 625).

Word(w) == [isnum |-> FALSE, text |-> w, num |-> 0]
Number(hundredths) == [isnum |-> TRUE, text |-> "", num |-> hundredths]

MissingArgument == <<"MissingArgument">>
InvalidArgument(arg, kind) == <<"InvalidArgument", arg, kind>>

\* (speed * 10.0).round() as u8: f64::round rounds half away from zero and
\* the cast saturates at 255.
round_as_u8_floor(hundredths) ==
    LET r == hundredths \div 10
    IN IF r > U8Max THEN U8Max ELSE r
round_as_u8(hundredths) ==
    LET r == (hundredths + 5) \div 10
    IN IF r > U8Max THEN U8Max ELSE r

\* parse_speed
parse_speed(tokens) ==
    IF tokens = <<>> THEN Err(MissingArgument)
    ELSE IF ~Head(tokens).isnum THEN Err(InvalidArgument(Head(tokens), "speed"))
    ELSE Ok(from_hm_per_hour(round_as_u8(Head(tokens).num)), Tail(tokens))

\* parse_bool
parse_bool(tokens) ==
    IF tokens = <<>> THEN Err(MissingArgument)
    ELSE IF Head(tokens) = Word("true") THEN Ok(1, Tail(tokens))
    ELSE IF Head(tokens) = Word("false") THEN Ok(0, Tail(tokens))
    ELSE Err(InvalidArgument(Head(tokens), "bool"))

\* parse_mode
parse_mode(tokens) ==
    IF tokens = <<>> THEN Err(MissingArgument)
    ELSE IF Head(tokens) = Word("auto") THEN Ok(0, Tail(tokens))
    ELSE IF Head(tokens) = Word("manual") THEN Ok(1, Tail(tokens))
    ELSE IF Head(tokens) = Word("sleep") THEN Ok(2, Tail(tokens))
    ELSE IF Head(tokens) = Word("calibration") THEN Ok(4, Tail(tokens))
    ELSE Err(InvalidArgument(Head(tokens), "mode"))

\* get
parse_get(tokens) ==
    IF tokens = <<>> THEN Err(MissingArgument)
    ELSE IF Head(tokens) = Word("state") THEN Ok(get_state, <<>>)
    ELSE IF Head(tokens) = Word("settings") THEN Ok(get_settings, <<>>)
    ELSE Err(MissingArgument)

\* set
parse_set(tokens) ==
    LET speed == parse_speed(Tail(tokens))
        bool == parse_bool(Tail(tokens))
        mode == parse_mode(Tail(tokens))
    IN IF tokens = <<>> THEN Err(MissingArgument)
       ELSE IF Head(tokens) = Word("speed")
              THEN IF speed.ok THEN Ok(set_speed(speed.val), <<>>) ELSE speed
       ELSE IF Head(tokens) = Word("max-speed")
              THEN IF speed.ok THEN Ok(set_max_speed(speed.val), <<>>) ELSE speed
       ELSE IF Head(tokens) = Word("start-speed")
              THEN IF speed.ok THEN Ok(set_start_speed(speed.val), <<>>) ELSE speed
       ELSE IF Head(tokens) = Word("calibration")
              THEN IF bool.ok THEN Ok(set_calibration_mode(bool.val), <<>>) ELSE bool
       ELSE IF Head(tokens) = Word("auto-start")
              THEN IF bool.ok THEN Ok(set_auto_start(bool.val), <<>>) ELSE bool
       ELSE IF Head(tokens) = Word("mode")
              THEN IF mode.ok THEN Ok(set_mode(mode.val), <<>>) ELSE mode
       ELSE Err(MissingArgument)

\* crabwalk_parse::parse, on the tokens of input.trim().split_whitespace()
parse_command(tokens) ==
    IF tokens = <<>> THEN Err(MissingArgument)
    ELSE IF Head(tokens) = Word("get") THEN parse_get(Tail(tokens))
    ELSE IF Head(tokens) = Word("set") THEN parse_set(Tail(tokens))
    ELSE IF Head(tokens) = Word("start") THEN Ok(start, <<>>)
    ELSE IF Head(tokens) = Word("stop") THEN Ok(stop, <<>>)
    ELSE Err(InvalidArgument(Head(tokens), "command"))

----
\* One call of an operation of Speed or of the text-command parser.

MaxHundredths == 2600   \* the largest number in a text command: 26.00

SpeedOnly ==
    /\ UNCHANGED <<chanVars, callVars, connVars, trkVars, walkVars, inVars>>
    /\ UNCHANGED <<reqCall, reqBytes, slice, parsed>>

SpeedOp(op, lform, rform, rkind, a, b, overflow_checks, tokens) ==
    [op |-> op, lform |-> lform, rform |-> rform, rkind |-> rkind, a |-> a, b |-> b,
     overflow_checks |-> overflow_checks, tokens |-> tokens]

\* The right operands of + and -: a Speed, or a raw u8 count.
RightOperands(rkind) == IF rkind = "speed" THEN Speeds ELSE 0..U8Max

\* The text commands: set speed X for every X up to the bound, and one
\* command of each other kind.
Commands ==
    { <<Word("set"), Word("speed"), Number(h)>> : h \in 0..MaxHundredths }
    \cup { <<Word("set"), Word("speed")>>, <<Word("set"), Word("speed"), Word("fast")>>,
           <<Word("set"), Word("max-speed"), Number(700)>>,
           <<Word("set"), Word("start-speed"), Number(250)>>,
           <<Word("set"), Word("mode"), Word("manual")>>,
           <<Word("set"), Word("auto-start"), Word("true")>>,
           <<Word("set"), Word("calibration"), Word("false")>>,
           <<Word("get"), Word("state")>>, <<Word("get"), Word("settings")>>,
           <<Word("start")>>, <<Word("stop")>>, <<Word("go")>>, <<>> }

FromHmPerHour(value) ==
    /\ speedCall = None
    /\ speedCall' = Some(SpeedOp("from_hm_per_hour", "val", "val", "u8", value, 0, FALSE, <<>>))
    /\ speedResult' = Some(Returned(from_hm_per_hour(value)))
    /\ SpeedOnly

TryFromHmPerHour(value) ==
    /\ speedCall = None
    /\ speedCall' =
          Some(SpeedOp("try_from_hm_per_hour", "val", "val", "u8", value, 0, FALSE, <<>>))
    /\ speedResult' = Some(Returned(try_from_hm_per_hour(value)))
    /\ SpeedOnly

FromKmPerHour(value, overflow_checks) ==
    /\ speedCall = None
    /\ speedCall' =
          Some(SpeedOp("from_km_per_hour", "val", "val", "u8", value, 0, overflow_checks, <<>>))
    /\ speedResult' = Some(from_km_per_hour(value, overflow_checks))
    /\ SpeedOnly

TryFromKmPerHour(value, overflow_checks) ==
    /\ speedCall = None
    /\ speedCall' =
          Some(SpeedOp("try_from_km_per_hour", "val", "val", "u8", value, 0,
                       overflow_checks, <<>>))
    /\ speedResult' = Some(try_from_km_per_hour(value, overflow_checks))
    /\ SpeedOnly

SpeedAdd(lform, rform, rkind, a, b, overflow_checks) ==
    /\ speedCall = None
    /\ speedCall' = Some(SpeedOp("add", lform, rform, rkind, a, b, overflow_checks, <<>>))
    /\ speedResult' = Some(Add(lform, rform, a, b, overflow_checks))
    /\ SpeedOnly

SpeedSub(lform, rform, rkind, a, b) ==
    /\ speedCall = None
    /\ speedCall' = Some(SpeedOp("sub", lform, rform, rkind, a, b, FALSE, <<>>))
    /\ speedResult' = Some(Sub(lform, rform, a, b))
    /\ SpeedOnly

SpeedAddAssign(rform, rkind, a, b, overflow_checks) ==
    /\ speedCall = None
    /\ speedCall' =
          Some(SpeedOp("add_assign", "mut", rform, rkind, a, b, overflow_checks, <<>>))
    /\ speedResult' = Some(add_assign(a, rform, b, overflow_checks))
    /\ SpeedOnly

SpeedSubAssign(rform, rkind, a, b) ==
    /\ speedCall = None
    /\ speedCall' = Some(SpeedOp("sub_assign", "mut", rform, rkind, a, b, FALSE, <<>>))
    /\ speedResult' = Some(sub_assign(a, rform, b))
    /\ SpeedOnly

ParseCommand(tokens) ==
    /\ speedCall = None
    /\ speedCall' = Some(SpeedOp("parse", "val", "val", "u8", 0, 0, FALSE, tokens))
    /\ speedResult' = Some(Returned(parse_command(tokens)))
    /\ SpeedOnly

NextSpeed ==
    \/ speedCall = None /\ \E value \in 0..U8Max : FromHmPerHour(value)
    \/ speedCall = None /\ \E value \in 0..U8Max : TryFromHmPerHour(value)
    \/ speedCall = None /\ \E value \in 0..U8Max, oc \in BOOLEAN : FromKmPerHour(value, oc)
    \/ speedCall = None
          /\ \E value \in 0..U8Max, oc \in BOOLEAN : TryFromKmPerHour(value, oc)
    \/ speedCall = None
          /\ \E lform, rform \in Forms, rkind \in {"speed", "u8"}, oc \in BOOLEAN :
                \E a \in Speeds, b \in RightOperands(rkind) :
                   SpeedAdd(lform, rform, rkind, a, b, oc)
    \/ speedCall = None
          /\ \E lform, rform \in Forms, rkind \in {"speed", "u8"} :
                \E a \in Speeds, b \in RightOperands(rkind) :
                   SpeedSub(lform, rform, rkind, a, b)
    \/ speedCall = None
          /\ \E rform \in Forms, rkind \in {"speed", "u8"}, oc \in BOOLEAN :
                \E a \in Speeds, b \in RightOperands(rkind) :
                   SpeedAddAssign(rform, rkind, a, b, oc)
    \/ speedCall = None
          /\ \E rform \in Forms, rkind \in {"speed", "u8"} :
                \E a \in Speeds, b \in RightOperands(rkind) :
                   SpeedSubAssign(rform, rkind, a, b)
    \/ speedCall = None /\ \E tokens \in Commands : ParseCommand(tokens)

SpecSpeed ==
    /\ Init
    /\ [][NextSpeed]_vars

Min(a, b) == IF a <= b THEN a ELSE b
Max(a, b) == IF a >= b THEN a ELSE b

\* C22: Speed::from_hm_per_hour(n) is n for n <= 60 and 60 for n in
\* 61..=255; Speed::try_from_hm_per_hour(n) is Ok(n) for n <= 60 and
\* InvalidSpeed(n) for n > 60.
HmClamps ==
    speedCall # None =>
        LET c == Unwrap(speedCall)
            r == Unwrap(speedResult)
        IN /\ c.op = "from_hm_per_hour" =>
                (~r.panic /\ r.val = IF c.a <= 60 THEN c.a ELSE 60)
           /\ c.op = "try_from_hm_per_hour" =>
                /\ ~r.panic
                /\ c.a <= 60 => (r.val.ok /\ r.val.val = c.a)
                /\ c.a > 60 => (~r.val.ok /\ r.val.err = <<"InvalidSpeed", c.a>>)

\* from_hm_per_hour(255) is 60.
HmClampsWitness ==
    /\ speedCall # None
    /\ Unwrap(speedCall).op = "from_hm_per_hour"
    /\ Unwrap(speedCall).a = 255
    /\ Unwrap(speedResult) = Returned(60)

\* C23: for Speeds a and b, a + b is min(a + b, 60) and a - b is
\* max(a - b, 0), for every combination of by-value, shared-reference and
\* mutable-reference operands and for += and -=.
SpeedArithmeticSaturates ==
    (speedCall # None /\ Unwrap(speedCall).rkind = "speed") =>
        LET c == Unwrap(speedCall)
            r == Unwrap(speedResult)
        IN /\ c.op \in {"add", "add_assign"} => r = Returned(Min(c.a + c.b, 60))
           /\ c.op \in {"sub", "sub_assign"} => r = Returned(Max(c.a - c.b, 0))

\* &mut a - &mut b with a = 10 and b = 55 is 0.
SpeedArithmeticSaturatesWitness ==
    /\ speedCall # None
    /\ Unwrap(speedCall) = SpeedOp("sub", "mut", "mut", "speed", 10, 55, FALSE, <<>>)
    /\ Unwrap(speedResult) = Returned(0)

\* C24: for a Speed s and a raw count c in 0..=255, s + c is
\* min(s + c, 60) and s - c is max(s - c, 0), without overflow, wraparound
\* or panic.
SpeedCountSaturates ==
    (speedCall # None /\ Unwrap(speedCall).rkind = "u8") =>
        LET c == Unwrap(speedCall)
            r == Unwrap(speedResult)
        IN /\ c.op \in {"add", "add_assign"} => r = Returned(Min(c.a + c.b, 60))
           /\ c.op \in {"sub", "sub_assign"} => r = Returned(Max(c.a - c.b, 0))

\* C25: Speed::from_km_per_hour(v) is 10 * v hm/h for v <= 6 and 60 hm/h
\* for v in 7..=255, and Speed::try_from_km_per_hour(v) is an error for v
\* in 7..=255; neither overflows.
KmClamps ==
    speedCall # None =>
        LET c == Unwrap(speedCall)
            r == Unwrap(speedResult)
        IN /\ c.op = "from_km_per_hour" =>
                (~r.panic /\ r.val = IF c.a <= 6 THEN 10 * c.a ELSE 60)
           /\ c.op = "try_from_km_per_hour" =>
                (~r.panic /\ (c.a >= 7 => ~r.val.ok))

\* C26: set speed X parses to the set-speed request whose parameter is
\* min(round(10 * X), 60) hm/h; any X above 6.0 gives the request of
\* set speed 60 hm/h, not an error.
SetSpeedClamps ==
    (/\ speedCall # None
     /\ Unwrap(speedCall).op = "parse"
     /\ Len(Unwrap(speedCall).tokens) = 3
     /\ Unwrap(speedCall).tokens[1] = Word("set")
     /\ Unwrap(speedCall).tokens[2] = Word("speed")
     /\ Unwrap(speedCall).tokens[3].isnum) =>
        LET h == Unwrap(speedCall).tokens[3].num
            r == Unwrap(speedResult)
            \* round(10 * X) for X = h / 100, half away from zero
            tenths == IF h % 10 >= 5 THEN h \div 10 + 1 ELSE h \div 10
            hm == IF tenths >= 60 THEN 60 ELSE tenths
        IN /\ ~r.panic
           /\ r.val.ok
           /\ r.val.val = [subject |-> 162, request_type |-> 1, width |-> 1, param |-> hm]
           /\ h > 600 => as_bytes(r.val.val) = <<247, 162, 1, 60, 223, 253>>

\* set speed 7, the command of the parser's test.
SetSpeedClampsWitness ==
    /\ speedCall # None
    /\ Unwrap(speedCall).tokens = <<Word("set"), Word("speed"), Number(700)>>
    /\ Unwrap(speedResult) = Returned(Ok(set_speed(60), <<>>))

----
\* The history walkers, continued: what a walk that has ended gave its
\* caller.

\* fetch_stats returns Ok(()) after clear_stats, Err(ConnectionClosed) when
\* recv_timeout reports a closed channel or a send fails; get_stats returns
\* its Vec after clear_stats and also when the notification stream ends,
\* and panics (unwrap) when a write fails.
WalkResult ==
    CASE wPc = "returned" -> "Ok"
      [] wPc = "closed" -> IF walker = "fetch_stats" THEN "ConnectionClosed" ELSE "Ok"
      [] wPc = "failed" -> "ConnectionClosed"
      [] wPc = "panicked" -> "panic"
      [] OTHER -> "none"

WalkEnded == wPc \in {"returned", "closed", "failed", "panicked"}

ClearsSent == { i \in 1..Len(wSent) : wSent[i] = clear_stats }
LastRecordSeen == \E i \in 1..Len(wGot) : wGot[i].next_id = None

\* C27: clear-stored-runs is sent at most once per walk, only after a
\* StoredStats record without next_id has been received, and it is the last
\* command of the walk; a walk that ends before such a record has arrived
\* has sent no clear-stored-runs and reports the connection-closed error.
ClearOnlyAfterLastRecord ==
    /\ Cardinality(ClearsSent) <= 1
    /\ \A i \in ClearsSent : i = Len(wSent) /\ LastRecordSeen /\ wPc = "returned"
    /\ (WalkEnded /\ ~LastRecordSeen) =>
          (ClearsSent = {} /\ WalkResult = "ConnectionClosed")

\* C28: a response of another kind than StoredStats received during the
\* walk is ignored: nothing is appended to the result, no command is sent
\* and the walk goes on waiting.
OtherResponseIgnored ==
    [][ wOthers' # wOthers =>
          ( /\ wGot' = wGot
            /\ stats' = stats
            /\ wSent' = wSent
            /\ wPc = "wait"
            /\ wPc' = "wait" ) ]_vars

\* A get_stats walk that met another response and still returned its two
\* records after three commands.
OtherResponseIgnoredWitness ==
    /\ walker = "get_stats"
    /\ wOthers = 1
    /\ wPc = "returned"
    /\ Len(stats) = 2
    /\ stats = wGot
    /\ Len(wSent) = 3

----
\* The run tracker, continued.

\* C29: when the response stream ends while the tracker is Tracking, no
\* record is emitted for the run in progress and no clear-stored-runs is
\* sent for it: the records and the clears are those of the runs that
\* ended before, and nothing is written or sent afterwards.
ClosedMidRunLosesRun ==
    /\ []( (trackerPc = "done" /\ app_state # None) =>
              /\ snaps[Len(snaps)].motor_state = "Running"
              /\ Len(stats_file) = Cardinality(RunEnds(snaps))
              /\ Len(SelectSeq(trackerLog, LAMBDA e : e = "clear"))
                    = Cardinality(RunEnds(snaps)) )
    /\ [][ trackerPc = "done" =>
              ( /\ trackerPc' = "done"
                /\ stats_file' = stats_file
                /\ trackerLog' = trackerLog ) ]_vars

\* Two Running snapshots, then the stream ended: Tracking, nothing written,
\* nothing sent.
ClosedMidRunLosesRunWitness ==
    /\ trackerPc = "done"
    /\ app_state # None
    /\ Len(snaps) = 2
    /\ snaps[2].distance = 100
    /\ stats_file = <<>>
    /\ trackerLog = <<>>

\* C30: the start time of a run is recorded when the first Running snapshot
\* arrives in Idle; a later Running snapshot of the run replaces
\* last_snapshot and leaves the start time as it is; the record emitted
\* carries the start time recorded first.
StartTimeRecordedOnce ==
    /\ [][ (app_state = None /\ app_state' # None) =>
              ( /\ Unwrap(app_state').start_time = now
                /\ Unwrap(app_state').last_state = snaps'[Len(snaps')] ) ]_vars
    /\ [][ (app_state # None /\ app_state' # None /\ snaps' # snaps) =>
              ( /\ Unwrap(app_state').start_time = Unwrap(app_state).start_time
                /\ Unwrap(app_state').last_state = snaps'[Len(snaps')]
                /\ stats_file' = stats_file ) ]_vars
    /\ [][ Len(stats_file') = Len(stats_file) + 1 =>
              stats_file'[Len(stats_file')].start_time = Unwrap(app_state).start_time ]_vars

\* Running at 250 ms, Running at a later time, then Stopped at 750 ms: the
\* record carries 250.
StartTimeRecordedOnceWitness ==
    /\ Len(snaps) = 3
    /\ snaps[1].motor_state = "Running"
    /\ snaps[2].motor_state = "Running"
    /\ snaps[3].motor_state = "Stopped"
    /\ now = 750
    /\ Len(stats_file) = 1
    /\ stats_file[1].start_time = 250

----
\* Ordering of the inbound side.

\* The responses of the notifications of s that decode, in the order of s.
DecodedOf(s) ==
    LET Decodes(n) == Decode[n].ok
        good == SelectSeq(s, Decodes)
    IN [ i \in 1..Len(good) |-> Decode[good[i]].val ]

\* C31: responses are delivered in the arrival order of their
\* notifications. The notifications whose decode has been attempted are
\* the first ones that arrived, those not yet attempted are the later
\* arrivals in order, and the responses sent on receiver_in are the
\* responses of the attempted notifications that decode, in arrival order,
\* each once (a prefix of them once the consumer is gone); so a response is
\* never delivered before the decode of an earlier arrival was attempted.
DeliveredInArrivalOrder ==
    /\ arrived = taken \o stream
    /\ IsPrefix(republished, DecodedOf(taken))
    /\ consumerAlive => republished = DecodedOf(taken)

\* Two different well-formed notifications arrived; both were decoded and
\* delivered, in arrival order.
DeliveredInArrivalOrderWitness ==
    /\ arrived = <<StateFrame, StoredStatsFrame(7)>>
    /\ taken = arrived
    /\ Len(republished) = 2
    /\ republished[1].subject = SubjectState
    /\ republished[2].subject = SubjectStoredStats

----
\* The bounded command queue with callers that submit faster than the
\* sender task writes.

MaxBurst == 13       \* send() calls made in one behaviour

\* The other components, and the sender task's own variables, stay as they are.
SendOnly ==
    /\ UNCHANGED <<connVars, trkVars, walkVars, inVars, codecVars>>
    /\ UNCHANGED <<now, senderPc, command, last_write, wakeAt, writes, lastStart,
                   prevStart, sendersAlive, failed>>

\* The number of send() calls made so far.
SendCalls == Len(submitted) + Len(rejected) + Cardinality(blocked)

\* A caller calls SyncSender::send. With room in the queue the command is
\* enqueued and the call returns Ok at once; with the receiving end gone it
\* returns SendError; with the queue full the caller blocks.
SendCall(c, r) ==
    /\ SendOnly
    /\ sendersAlive
    /\ SendCalls < MaxBurst
    /\ \A b \in blocked : b.by # c
    /\ LET cmd == [by |-> c, req |-> r, at |-> now]
       IN IF senderPc = "done"
            THEN /\ rejected' = Append(rejected, cmd)
                 /\ UNCHANGED <<sendq, submitted, blocked>>
            ELSE IF HasRoom(sendq)
              THEN /\ sendq' = Append(sendq, cmd)
                   /\ submitted' = Append(submitted, cmd)
                   /\ UNCHANGED <<rejected, blocked>>
              ELSE /\ blocked' = blocked \cup {[by |-> c, req |-> r, since |-> now]}
                   /\ UNCHANGED <<sendq, submitted, rejected>>

\* A blocked send() goes on: the sender task has taken a command and the
\* queue has room (the command is enqueued, Ok), or the sender task has
\* ended (SendError).
SendUnblock(b) ==
    /\ SendOnly
    /\ b \in blocked
    /\ senderPc = "done" \/ HasRoom(sendq)
    /\ blocked' = blocked \ {b}
    /\ LET cmd == [by |-> b.by, req |-> b.req, at |-> now]
       IN IF senderPc = "done"
            THEN /\ rejected' = Append(rejected, cmd)
                 /\ UNCHANGED <<sendq, submitted>>
            ELSE /\ sendq' = Append(sendq, cmd)
                 /\ submitted' = Append(submitted, cmd)
                 /\ UNCHANGED rejected

\* The callers, the sender task and the clock over the first pacing interval:
\* the first command is written when it ends, and a second one taken.
NextQueue ==
    \/ SendCall("main", get_state)
    \/ \E b \in blocked : SendUnblock(b)
    \/ SenderRecv
    \/ SenderWake
    \/ \E ok \in BOOLEAN : SenderWriteDone(ok)
    \/ now < MIN_WAIT /\ ClockTick

SpecQueue ==
    /\ Init
    /\ [][NextQueue]_vars

\* C32: the command queue never holds more than 10 commands; a send()
\* blocks only when it finds the queue full, and otherwise enqueues and
\* returns in the same step, at the time of the call, whatever the sender
\* task is doing (sleeping for the pacing or writing) and before the command
\* is written; a command is enqueued without any write or pacing wait taking
\* place in the caller, and the pacing deadline exists only while the
\* sender task sleeps.
QueueBoundedSubmitReturns ==
    /\ [](Len(sendq) <= QueueCap)
    /\ [](wakeAt # None => senderPc = "sleep")
    /\ [](failed = None =>
            Len(submitted) = Len(writes) + Len(sendq) + (IF senderPc = "sleep" THEN 1 ELSE 0))
    /\ [][ /\ blocked' \ blocked # {} => Len(sendq) = QueueCap /\ sendq' = sendq
           /\ (submitted' # submitted /\ blocked' = blocked) =>
                 /\ Len(sendq) < QueueCap
                 /\ Last(submitted').at = now
                 /\ <<now, senderPc, wakeAt, writes, last_write>>'
                       = <<now, senderPc, wakeAt, writes, last_write>>
         ]_vars

\* The sender task holds one command and sleeps for the pacing, the queue
\* holds 10 more, all submitted at time 0, and a twelfth send() is blocked.
QueueBoundedSubmitReturnsWitness ==
    /\ Len(sendq) = QueueCap
    /\ senderPc = "sleep"
    /\ command # None
    /\ Len(submitted) = QueueCap + 1
    /\ blocked # {}
    /\ writes = <<>>

----
\* The fields of a decoded response, byte by byte.

\* The position of the next_id byte of a stored-run frame.
NextIdAt == FieldOffset(StoredStatsFields, Len(StoredStatsFields))

\* C33: a decoded StoredStats has next_id = None exactly when the next_id
\* byte of the frame is 0 and next_id = Some(n) when it is n # 0; so the
\* request a history walk sends after the record is fetch-by-id(n) with
\* n # 0, and its frame is that of clear-stored-runs only after a zero byte.
NextIdZeroIsNone ==
    (parsed # None /\ Unwrap(parsed).ok /\ slice[2] = SubjectStoredStats) =>
        LET n == slice[NextIdAt]
            r == Unwrap(parsed).val
        IN /\ (r.next_id = None) <=> (n = 0)
           /\ n # 0 => /\ r.next_id = Some(n)
                       /\ NextRequest(r) = from_u8(170, SubjectStoredStats, n)
                       /\ as_bytes(NextRequest(r)) # as_bytes(clear_stats)
           /\ n = 0 => NextRequest(r) = clear_stats

\* A stored-run frame whose next_id byte is 0.
NextIdZeroIsNoneWitness ==
    /\ parsed # None
    /\ slice = [StoredStatsFrame(7) EXCEPT ![NextIdAt] = 0]
    /\ Unwrap(parsed).ok
    /\ Unwrap(parsed).val.next_id = None

\* C34: no decoded response has next_id = Some(255), the value that asks
\* for the latest record in a request.
NoSentinelNextId ==
    (parsed # None /\ Unwrap(parsed).ok /\ slice[2] = SubjectStoredStats) =>
        Unwrap(parsed).val.next_id # Some(LATEST_STATS)

\* C35: the checksum byte is read and discarded: a slice that holds a
\* header, a valid subject and as many bytes as lie before the footer
\* decodes to the same result, the same response or the same error,
\* whatever byte stands at the checksum position: 0, 255, or the sum of the
\* bytes before it.
ChecksumDiscarded ==
    (parsed # None /\ StartsFrame(slice) /\ Len(slice) >= FrameLength(slice[2]) - 1) =>
        LET at == FrameLength(slice[2]) - 1
        IN \A c \in {0, U8Max, ByteSum(SubSeq(slice, 2, at - 1))} :
              parse([slice EXCEPT ![at] = c]) = Unwrap(parsed)

\* A state frame whose checksum byte is neither 0 nor the sum of the bytes
\* before it decodes.
ChecksumDiscardedWitness ==
    /\ parsed # None
    /\ slice = [StateFrame EXCEPT ![FrameLength(SubjectState) - 1] = 1]
    /\ ByteSum(SubSeq(slice, 2, FrameLength(SubjectState) - 2)) # 1
    /\ Unwrap(parsed).ok
    /\ Unwrap(parsed).val.speed = 30

\* The 24-bit value of the three bytes of s from position `at`, big-endian.
Wire24(s, at) == s[at] * 65536 + s[at + 1] * 256 + s[at + 2]

\* The slice is a whole frame by position: header, valid subject, fields
\* that hold valid values, a checksum byte, the footer, with each
\* multi-byte field three bytes wide.
WholeFrame(s) ==
    /\ StartsFrame(s)
    /\ Len(s) = FrameLength(s[2])
    /\ BadFields(s) = {}
    /\ s[Len(s)] = MESSAGE_FOOTER

\* C36 as stated: every multi-byte field of a decoded response, distance
\* included, holds b0*65536 + b1*256 + b2 of its three wire bytes, a value
\* below 2^24.
WideFieldsAreWireValues ==
    (parsed # None /\ Unwrap(parsed).ok) =>
        LET fields == FieldsOf(slice[2])
            r == Unwrap(parsed).val
        IN \A i \in WideFields(slice) :
              /\ r[fields[i][1]] = Wire24(slice, FieldOffset(fields, i))
              /\ r[fields[i][1]] < 16777216

\* C36, amended: every multi-byte field consumes exactly three wire bytes
\* (a slice decodes exactly when it is a whole frame with three bytes per
\* such field) and the integer read from them is b0*65536 + b1*256 + b2,
\* below 2^24; run time, steps, goal, current time, start time and duration
\* hold that integer, distance holds 10 times it, at most 167,772,150.
WideFieldsReadThreeBytes ==
    parsed # None =>
        LET fields == FieldsOf(slice[2])
            r == Unwrap(parsed).val
        IN /\ Unwrap(parsed).ok <=> WholeFrame(slice)
           /\ Unwrap(parsed).ok =>
                \A i \in WideFields(slice) :
                   LET wire == Wire24(slice, FieldOffset(fields, i))
                   IN /\ wire < 16777216
                      /\ fields[i][2] = "u32" => r[fields[i][1]] = wire
                      /\ fields[i][2] = "distance" =>
                            /\ r[fields[i][1]] = 10 * wire
                            /\ r[fields[i][1]] <= 167772150

\* A settings frame whose goal bytes are 1, 128, 255.
WideFieldsReadThreeBytesWitness ==
    /\ parsed # None
    /\ slice = [SettingsFrame EXCEPT ![4] = 1, ![5] = 128, ![6] = 255]
    /\ Unwrap(parsed).ok
    /\ Unwrap(parsed).val.goal = 98559

\* A State or Settings frame of the right length that ends with the footer.
FullLength(s) ==
    /\ StartsFrame(s)
    /\ Len(s) = FrameLength(s[2])
    /\ s[Len(s)] = MESSAGE_FOOTER

\* C37: the mode byte of a State frame (byte 5) and of a Settings frame
\* (start mode, byte 10) decodes only for 0, 1, 2 and 4; any other value, 3
\* included, fails the frame with InvalidType(byte, "mode") (when the speed
\* bytes before it are valid, which are checked first); the motor-state
\* byte of a State frame (byte 3) never fails the frame: 0, 1, 9 give
\* Stopped, Running, Starting and any other value Unknown(byte).
ModeStrictMotorStateLenient ==
    (parsed # None /\ FullLength(slice) /\ slice[2] \in {SubjectState, SubjectSettings}) =>
        LET r == Unwrap(parsed)
            isState == slice[2] = SubjectState
            mode == IF isState THEN slice[5] ELSE slice[10]
            speedsValid == IF isState THEN slice[4] <= 60
                                      ELSE slice[8] <= 60 /\ slice[9] <= 60
            motor == slice[3]
        IN /\ r.ok => /\ mode \in {0, 1, 2, 4}
                      /\ mode = (IF isState THEN r.val.mode ELSE r.val.start_mode)
           /\ (speedsValid /\ mode \notin {0, 1, 2, 4}) =>
                 r = Err(<<"InvalidType", mode, "mode">>)
           /\ (isState /\ speedsValid /\ mode \in {0, 1, 2, 4}) =>
                 /\ r.ok
                 /\ r.val.motor_state =
                       (CASE motor = 0 -> <<"Stopped">>
                          [] motor = 1 -> <<"Running">>
                          [] motor = 9 -> <<"Starting">>
                          [] OTHER -> <<"Unknown", motor>>)

\* A state frame with mode byte 3.
ModeStrictMotorStateLenientWitness ==
    /\ parsed # None
    /\ slice = [StateFrame EXCEPT ![5] = 3]
    /\ Unwrap(parsed) = Err(<<"InvalidType", 3, "mode">>)

\* C38: the display byte of a Settings frame (byte 12) decodes for each of
\* the 32 values made of the bits 1, 2, 4, 8, 16 (0, the empty set,
\* included) and fails the frame with InvalidType(byte, "InfoFlags") when
\* any of the bits 32, 64, 128 is set (the fields before it being valid).
DisplayFlagsStrict ==
    (parsed # None /\ FullLength(slice) /\ slice[2] = SubjectSettings) =>
        LET r == Unwrap(parsed)
            display == slice[12]
            earlierValid == /\ slice[8] <= 60 /\ slice[9] <= 60
                            /\ slice[10] \in {0, 1, 2, 4} /\ slice[11] \in {1, 2, 3}
        IN /\ r.ok => display \div 32 = 0 /\ r.val.display = display
           /\ (earlierValid /\ display \div 32 # 0) =>
                 r = Err(<<"InvalidType", display, "InfoFlags">>)
           /\ (earlierValid /\ display \div 32 = 0 /\ slice[14] \in {0, 1}) => r.ok

\* A settings frame with the display byte 32.
DisplayFlagsStrictWitness ==
    /\ parsed # None
    /\ slice = [SettingsFrame EXCEPT ![12] = 32]
    /\ Unwrap(parsed) = Err(<<"InvalidType", 32, "InfoFlags">>)

----
\* CONNECTION_FLAG over the life of the process: connecting, the channel
\* closing, connecting again.

\* CONNECTION_FLAG once the sender and receiver tasks have ended: nothing
\* in the worker or in connect() resets the OnceCell.
FlagAfterCloseCleared(f) == FALSE
FlagAfterClose(f) == f

\* The worker of an established channel ends: the sender task has broken
\* out of its loop (write failure, or every sender dropped) and the
\* receiver task out of its (the notification stream ended, or the
\* consumer is gone), and future::join returns.
WorkerClosed(w) ==
    /\ ConnOnly
    /\ w \in workers
    /\ cPc[w[1]] = "returned"
    /\ workers' = workers \ {w}
    /\ flag' = FlagAfterClose(flag)
    /\ UNCHANGED <<cPc, retry_count, initStage, initResult, cResult, outcomes, calls>>

\* crabwalk's main thread connects, the channel may close, and the thread
\* may call connect_with_retry again.
NextReconnect ==
    \/ CallConnectWithRetry(1)
    \/ ConnectCheck(1)
    \/ \E o \in InitOutcomes : WorkerInit(1, o)
    \/ ConnectFinish(1)
    \/ \E w \in workers : WorkerClosed(w)

SpecReconnect ==
    /\ Init
    /\ [][NextReconnect]_vars

\* connect() returns `result` to thread t in this step.
ConnectReturns(t, result) ==
    /\ Len(outcomes'[t]) = Len(outcomes[t]) + 1
    /\ Last(outcomes'[t]) = result

\* C39: CONNECTION_FLAG is never cleared, also not when the channel's
\* worker ends; it becomes set only in a step in which a connect() returns
\* Ok; a connect() that returns an error leaves it as it was, so while no
\* connect() has succeeded no connect() is rejected as already
\* established; and a connect() entered with the flag set returns
\* ConnectionAlreadyEstablished without spawning a worker, whether or not
\* the established channel's worker still runs.
FlagSetBySuccessOnly ==
    /\ [](\A t \in Threads :
            (\E i \in 1..Len(outcomes[t]) :
                outcomes[t][i] = "ConnectionAlreadyEstablished") => flag)
    /\ [][ /\ flag => flag'
           /\ (~flag /\ flag') => \E t \in Threads : ConnectReturns(t, "Ok")
           /\ \A t \in Threads :
                 (\E e \in InitOutcomes \cup {"ConnectionAlreadyEstablished"} :
                     e # "Ok" /\ ConnectReturns(t, e)) => flag' = flag
           /\ \A t \in Threads :
                 (flag /\ cPc[t] = "connect" /\ cPc'[t] # "connect") =>
                     /\ ConnectReturns(t, "ConnectionAlreadyEstablished")
                     /\ cPc'[t] = "returned"
                     /\ cResult'[t] = "ConnectionAlreadyEstablished"
                     /\ workers' = workers
         ]_vars

\* A first call connected, the channel's worker has ended, and the second
\* call was rejected although no worker runs.
FlagSetBySuccessOnlyWitness ==
    /\ flag
    /\ workers = {}
    /\ calls[1] = 2
    /\ cPc[1] = "returned"
    /\ outcomes[1] = <<"ConnectionAlreadyEstablished">>
    /\ cResult[1] = "ConnectionAlreadyEstablished"

----
\* The range of Speed.

\* The Speed values an operation has produced: the value a constructor or
\* an operator returned, the Ok value of a fallible constructor (the one
\* the decoder applies to a speed byte), the parameter of a speed request
\* built by a text command; none when the operation panicked or failed.
SpeedsProduced ==
    IF speedCall = None THEN {}
    ELSE LET c == Unwrap(speedCall)
             r == Unwrap(speedResult)
         IN IF r.panic THEN {}
            ELSE IF c.op \in {"try_from_hm_per_hour", "try_from_km_per_hour"}
              THEN IF r.val.ok THEN {r.val.val} ELSE {}
            ELSE IF c.op = "parse"
              THEN IF r.val.ok /\ Len(c.tokens) >= 2
                               /\ c.tokens[2] \in {Word("speed"), Word("max-speed"),
                                                   Word("start-speed")}
                     THEN {r.val.val.param} ELSE {}
            ELSE {r.val}

\* C40: every Speed produced by a constructor (clamping or fallible, from
\* hm/h or km/h; the decoder's speed fields go through the fallible one)
\* or by +, -, += or -= applied to a Speed in 0..=60 and a Speed or u8
\* operand is in 0..=60, in builds with and without overflow checks; so, by
\* induction over a sequence of operations, is every reachable Speed, and
\* the set-speed, set-max-speed and set-start-speed frames carry it as a
\* parameter in 0..=60.
SpeedInRange ==
    \A v \in SpeedsProduced :
        /\ v \in 0..60
        /\ as_bytes(set_speed(v))[4] = v
        /\ SubSeq(as_bytes(set_max_speed(v)), 4, 7) = <<0, 0, 0, v>>
        /\ SubSeq(as_bytes(set_start_speed(v)), 4, 7) = <<0, 0, 0, v>>

\* 60 hm/h + 196u8 in a build without overflow checks: the u8 sum wraps to
\* 0, which is a Speed in range.
SpeedInRangeWitness ==
    /\ speedCall # None
    /\ Unwrap(speedCall) = SpeedOp("add", "val", "val", "u8", 60, 196, FALSE, <<>>)
    /\ SpeedsProduced = {0}


====
